---- MODULE Spec2Model ----
(***************************************************************************)
(* RAG ingestion and retrieval pipeline of ai-agent-mastery-ts.            *)
(*                                                                         *)
(*   SpecChunk      chunkText as the loop the code runs, one iteration per *)
(*                  step (text-processor.ts)                               *)
(*   Spec           processFileForRAG / deleteDocumentByFileId against the *)
(*                  store, one step per awaited call (db-handler.ts)       *)
(*   SpecRetrieval  ragRetrievalTool (rag-retrieval.ts)                    *)
(*   SpecWatch      the Google Drive and local folder watchers, one step   *)
(*                  per awaited call                                       *)
(*   SpecMemory     addMemory of the memory manager                        *)
(*   SpecConfig     the local watcher's chunking configuration             *)
(*   SpecSupervisor the supervisor workflow (06-supervisor-agent.ts)       *)
(*                                                                         *)
(* Strings are sequences of one-character strings.                         *)
(***************************************************************************)
EXTENDS Integers, Sequences, FiniteSets, TLC

VARIABLES
    \* chunkText
    c_pc, c_text, c_size, c_overlap, c_cleaned, c_i, c_chunks,
    \* the store: tables documents, document_rows, document_metadata
    documents, document_rows, document_metadata,
    \* the call in progress (processFileForRAG or deleteDocumentByFileId)
    pc, op, options, p_schema, p_existing, p_rows, p_chunks, p_embeddings,
    p_i, ret,
    \* history: store calls issued by the call in progress, the store when it
    \* started, the previous call, number of calls started
    log, pre, prev, nops,
    \* ragRetrievalTool: the stored chunks with their similarity to the
    \* query, the input, and the call's progress and outcome
    r_pc, r_docs, r_input, r_embedding, r_results, r_failed, r_out,
    \* the sources as the watchers' calls leave them: source_id -> the
    \* content stored for it
    sources,
    \* GoogleDriveWatcher: the folder (the world), knownFiles, checkInterval,
    \* the progress of start(), whether stop() was called, the scanFolder
    \* runs, and counters that bound the runs and the folder's changes
    d_folder, d_known, d_timer, d_start, d_stopped, d_scans, d_nscan, d_events,
    \* LocalFileWatcher: the watch directory (the world), the writes chokidar
    \* is waiting to see finished, processedFiles, this.watcher, the progress
    \* of start(), whether stop() was called, the files the startup scan has
    \* still to visit, the handler calls under way, what has happened so
    \* far, and the number of changes the world has made
    l_files, l_pending, l_processed, l_watcher, l_start, l_stopped, l_todo,
    l_calls, l_log, l_edits,
    \* CLI process-directory: its progress, the files still to visit, the
    \* files it has attempted with their outcome, successCount and failCount
    k_pc, k_todo, k_done, k_counts,
    \* addMemory: the call's progress, the environment, its input, the
    \* embedding it got, the memories table, its outcome and the number of
    \* calls made
    m_pc, m_env, m_input, m_embedding, m_memories, m_out, m_calls,
    \* a LocalFileWatcher's configuration: the constructor's progress, the
    \* environment, the config passed in, this.config, and the chunking
    \* options of the processFileForRAG calls issued
    w_pc, w_env, w_given, w_config, w_issued,
    \* the supervisor workflow: the node the graph is at and how far the node
    \* has got, the graph's state, the LLM's last response, and the numbers
    \* of delegations to workers and of nodes run
    s_node, s_pc, s_state, s_response, s_delegations, s_steps

chunkVars == <<c_pc, c_text, c_size, c_overlap, c_cleaned, c_i, c_chunks>>
storeVars == <<documents, document_rows, document_metadata>>
localVars == <<p_schema, p_existing, p_rows, p_chunks, p_embeddings, p_i>>
callVars == <<pc, op, options, ret>>
histVars == <<log, pre, prev, nops>>
ingestVars == <<storeVars, localVars, callVars, histVars>>
retrVars == <<r_pc, r_docs, r_input, r_embedding, r_results, r_failed, r_out>>

driveVars == <<d_folder, d_known, d_timer, d_start, d_stopped, d_scans, d_nscan,
               d_events>>
localWatchVars == <<l_files, l_pending, l_processed, l_watcher, l_start,
                    l_stopped, l_todo, l_calls, l_log, l_edits>>
cliVars == <<k_pc, k_todo, k_done, k_counts>>
watchVars == <<sources, driveVars, localWatchVars, cliVars>>

memVars == <<m_pc, m_env, m_input, m_embedding, m_memories, m_out, m_calls>>
cfgVars == <<w_pc, w_env, w_given, w_config, w_issued>>
superVars == <<s_node, s_pc, s_state, s_response, s_delegations, s_steps>>
otherVars == <<memVars, cfgVars, superVars>>

vars == <<chunkVars, ingestVars, retrVars, watchVars, otherVars>>

----------------------------------------------------------------------------
(* Bounds *)

\* most chunks in the store when ragRetrievalTool runs
MaxDocs == 3
\* longest enumerated text
MaxLen == 4
\* largest enumerated chunk size / overlap
MaxSize == 3
\* iterations granted to a loop that does not advance before it is cut off
MaxIter == 2
\* calls of processFileForRAG / deleteDocumentByFileId in one behaviour
MaxOps == 2

----------------------------------------------------------------------------
(* Strings *)

Min(a, b) == IF a < b THEN a ELSE b
Max(a, b) == IF a > b THEN a ELSE b

Chars == {"a", "b", " ", "\r"}

\* characters String.prototype.trim removes
Whitespace == {" ", "\t", "\n", "\r"}

\* String.prototype.slice(start, end): negative indices count from the end,
\* indices are clamped to [0, length]
Slice(s, start, end) ==
    LET len  == Len(s)
        from == IF start < 0 THEN Max(len + start, 0) ELSE Min(start, len)
        to   == IF end < 0 THEN Max(len + end, 0) ELSE Min(end, len)
    IN  IF from < to THEN SubSeq(s, from + 1, to) ELSE << >>

\* truthiness of chunk.trim()
TrimNonEmpty(s) == \E k \in 1..Len(s) : s[k] \notin Whitespace

\* text.replace(/\r/g, '')
StripCR(s) == SelectSeq(s, LAMBDA ch : ch # "\r")

----------------------------------------------------------------------------
(* chunkText *)

LoopBody_KeepBlank(cleaned, chunkSize, i, chunks) ==
    Append(chunks, Slice(cleaned, i, i + chunkSize))

\* body of the for loop: push the window at i when its trim is non-empty
LoopBody(cleaned, chunkSize, i, chunks) ==
    LET chunk == Slice(cleaned, i, i + chunkSize)
    IN  IF TrimNonEmpty(chunk) THEN Append(chunks, chunk) ELSE chunks

\* the loop makes progress towards i >= cleaned.length
Advances(chunkSize, overlap) == chunkSize - overlap > 0

\* the for loop from index i on (Len(chunks) >= 0 holds always: it has the
\* accumulated list evaluated at every iteration instead of at the end)
RECURSIVE ChunkLoop(_, _, _, _, _)
ChunkLoop(cleaned, chunkSize, overlap, i, chunks) ==
    IF i < Len(cleaned) /\ Len(chunks) >= 0
    THEN ChunkLoop(cleaned, chunkSize, overlap, i + (chunkSize - overlap),
                   LoopBody(cleaned, chunkSize, i, chunks))
    ELSE chunks

\* the value chunkText returns; defined where the loop terminates
chunkText(text, chunkSize, overlap) ==
    IF text = << >> THEN << >>
    ELSE ChunkLoop(StripCR(text), chunkSize, overlap, 0, << >>)

\* chunkText returns for these arguments
Terminates(text, chunkSize, overlap) ==
    \/ text = << >>
    \/ StripCR(text) = << >>
    \/ Advances(chunkSize, overlap)

----------------------------------------------------------------------------
(* SpecChunk: chunkText step by step *)

RECURSIVE SeqsUpTo(_, _)
SeqsUpTo(S, n) ==
    IF n = 0 THEN {<< >>}
    ELSE LET shorter == SeqsUpTo(S, n - 1)
         IN  shorter \cup {Append(s, x) : s \in {t \in shorter : Len(t) = n - 1}, x \in S}

Texts == SeqsUpTo(Chars, MaxLen)

Sizes == (-1)..MaxSize
Overlaps == (-1)..MaxSize

\* defaults of chunkText's parameters
DefaultChunkSize == 1000
DefaultOverlap == 200

\* 2500-character texts: no whitespace; the last 100 characters blank; 150
\* carriage returns in front; the first 1800 characters blank
LongTexts ==
    { [k \in 1..2500 |-> "a"],
      [k \in 1..2500 |-> IF k <= 2400 THEN "a" ELSE " "],
      [k \in 1..2500 |-> IF k <= 150 THEN "\r" ELSE "b"],
      [k \in 1..2500 |-> IF k <= 1800 THEN " " ELSE "a"] }

\* the variables of the other specifications, at rest
ChunkIdle ==
    /\ c_pc = "off"
    /\ c_text = << >>
    /\ c_size = 0
    /\ c_overlap = 0
    /\ c_cleaned = << >>
    /\ c_i = 0
    /\ c_chunks = << >>

Nil == "nil"

\* an optional value: undefined / null, or a value
None == << >>
Some(v) == <<v>>

NoOptions == [fileId |-> Nil]
EmptyStore == [documents |-> << >>, document_rows |-> << >>, document_metadata |-> {}]
NoCall == [op |-> Nil, options |-> NoOptions, ret |-> Nil, ok |-> TRUE]

IngestIdle ==
    /\ documents = << >>
    /\ document_rows = << >>
    /\ document_metadata = {}
    /\ pc = "off"
    /\ op = Nil
    /\ options = NoOptions
    /\ p_schema = None
    /\ p_existing = None
    /\ p_rows = << >>
    /\ p_chunks = << >>
    /\ p_embeddings = << >>
    /\ p_i = 0
    /\ ret = Nil
    /\ log = << >>
    /\ pre = EmptyStore
    /\ prev = NoCall
    /\ nops = 0

RetrievalIdle ==
    /\ r_pc = "off"
    /\ r_docs = << >>
    /\ r_input = [query |-> Nil]
    /\ r_embedding = None
    /\ r_results = << >>
    /\ r_failed = "none"
    /\ r_out = None

\* the watchers' runs: what happens around a Drive watcher (firings of its
\* interval and changes of the folder); changes the world makes to the
\* watch directory of a local watcher
MaxEvents == 3
MaxEdits == 2

\* the scanFolder runs of one watcher: start()'s and one per firing
MaxScans == MaxEvents + 1

\* ids and paths are sequences of characters or longer pieces; NoId: none
NoId == << >>

\* the files a Drive folder may hold, in the order a listing gives them
DriveFiles == << <<"f1">>, <<"f2">> >>
DriveIds == {DriveFiles[k] : k \in 1..Len(DriveFiles)}

\* modifiedTime values (also the contents of a file); Absent: the folder has no such file; Undefined: what
\* knownFiles.get gives for a key it does not hold
Times == {1, 2}
Absent == 0
Undefined == -1

\* the files the watch directory may hold, as paths relative to it, in the
\* order getFilesRecursively gives them; the last piece is the extension
WatchedFiles ==
    << <<"a", "/", "b", ".txt">>, <<"a", "_", "b", ".txt">>, <<"n", ".tmp">> >>
LocalPaths == {WatchedFiles[k] : k \in 1..Len(WatchedFiles)}

\* config.supportedExtensions and isSupported
SupportedExtensions == {".pdf", ".txt", ".md", ".csv", ".docx", ".json"}
isSupported(filepath) == filepath[Len(filepath)] \in SupportedExtensions
SupportedPaths == {path \in LocalPaths : isSupported(path)}

\* fileId = relativePath.replace(/[\/\\]/g, '_')
FileId(relativePath) ==
    [k \in 1..Len(relativePath) |->
        IF relativePath[k] \in {"/", "\\"} THEN "_" ELSE relativePath[k]]

LocalIds == {FileId(path) : path \in LocalPaths}

\* the source_ids the watchers address
SourceIds == DriveIds \cup LocalIds

\* what is stored for a source: nothing, what an ingestion that failed
\* part-way left, or the complete records of a content
Nothing == 0
Partial == -1

\* one run of scanFolder: where it waits, the listing it got, the files of
\* the listing still to visit, its place in the iteration of knownFiles, the
\* content it downloaded; and what it did: the ids knownFiles held when the
\* listing came, for each file visited the held value found, the files it
\* called processFile for, the ids it called handleFileDeleted for
NoScan ==
    [pc |-> "off", failed |-> FALSE, listing |-> [f \in DriveIds |-> Absent],
     todo |-> << >>, it |-> 0, cur |-> NoId, content |-> Absent,
     held |-> {}, decided |-> << >>, processed |-> {}, deleted |-> {}]

DriveOff ==
    /\ d_folder = [f \in DriveIds |-> Absent]
    /\ d_known = << >>
    /\ d_timer = FALSE
    /\ d_start = "off"
    /\ d_stopped = FALSE
    /\ d_scans = [i \in 1..MaxScans |-> NoScan]
    /\ d_nscan = 0
    /\ d_events = 0

\* nothing has happened to any file yet
NoLog == [path \in LocalPaths |-> << >>]

LocalOff ==
    /\ l_files = [path \in LocalPaths |-> Absent]
    /\ l_pending = [path \in LocalPaths |-> "none"]
    /\ l_processed = {}
    /\ l_watcher = FALSE
    /\ l_start = "off"
    /\ l_stopped = FALSE
    /\ l_todo = << >>
    /\ l_calls = << >>
    /\ l_log = NoLog
    /\ l_edits = 0

CliOff ==
    /\ k_pc = "off"
    /\ k_todo = << >>
    /\ k_done = << >>
    /\ k_counts = [success |-> 0, fail |-> 0]

WatchIdle ==
    /\ sources = [id \in SourceIds |-> Nothing]
    /\ DriveOff
    /\ LocalOff
    /\ CliOff

MemoryIdle ==
    /\ m_pc = "off"
    /\ m_env = [MEMORY_RETENTION_DAYS |-> 0]
    /\ m_input = [userId |-> Nil]
    /\ m_embedding = None
    /\ m_memories = << >>
    /\ m_out = None
    /\ m_calls = 0

ConfigIdle ==
    /\ w_pc = "off"
    /\ w_env = [CHUNK_SIZE |-> 0, CHUNK_OVERLAP |-> 0]
    /\ w_given = None
    /\ w_config = None
    /\ w_issued = << >>

SuperIdle ==
    /\ s_node = "off"
    /\ s_pc = "off"
    /\ s_state = [nextAgent |-> None, taskComplete |-> FALSE, iterations |-> 0]
    /\ s_response = None
    /\ s_delegations = 0
    /\ s_steps = 0

OtherIdle ==
    /\ MemoryIdle
    /\ ConfigIdle
    /\ SuperIdle

InitChunk ==
    /\ IngestIdle
    /\ RetrievalIdle
    /\ WatchIdle
    /\ OtherIdle
    /\ c_pc = "start"
    /\ \/ /\ c_text \in Texts
          /\ c_size \in Sizes
          /\ c_overlap \in Overlaps
       \/ /\ c_text \in LongTexts
          /\ c_size = DefaultChunkSize
          /\ c_overlap = DefaultOverlap
    /\ c_cleaned = << >>
    /\ c_i = 0
    /\ c_chunks = << >>

\* if (!text) return []; cleaned = text.replace(/\r/g, ''); chunks = []; i = 0
ChunkStart ==
    /\ c_pc = "start"
    /\ IF c_text = << >>
       THEN /\ c_pc' = "done"
            /\ UNCHANGED <<c_cleaned>>
       ELSE /\ c_pc' = "loop"
            /\ c_cleaned' = StripCR(c_text)
    /\ c_i' = 0
    /\ c_chunks' = << >>
    /\ UNCHANGED <<c_text, c_size, c_overlap>>
    /\ UNCHANGED <<ingestVars, retrVars, watchVars, otherVars>>

ChunkIter_NoOverlap ==
    /\ c_pc = "loop"
    /\ c_i < Len(c_cleaned)
    /\ c_i > -MaxIter
    /\ Len(c_chunks) < MaxLen + MaxIter
    /\ c_chunks' = LoopBody(c_cleaned, c_size, c_i, c_chunks)
    /\ c_i' = c_i + c_size
    /\ UNCHANGED <<c_pc, c_text, c_size, c_overlap, c_cleaned>>
    /\ UNCHANGED <<ingestVars, retrVars, watchVars, otherVars>>

\* one iteration: i < cleaned.length, body, i += chunkSize - overlap
ChunkIter ==
    /\ c_pc = "loop"
    /\ c_i < Len(c_cleaned)
    /\ c_i > -MaxIter
    /\ Len(c_chunks) < MaxLen + MaxIter
    /\ c_chunks' = LoopBody(c_cleaned, c_size, c_i, c_chunks)
    /\ c_i' = c_i + (c_size - c_overlap)
    /\ UNCHANGED <<c_pc, c_text, c_size, c_overlap, c_cleaned>>
    /\ UNCHANGED <<ingestVars, retrVars, watchVars, otherVars>>

\* loop condition false: return chunks
ChunkReturn ==
    /\ c_pc = "loop"
    /\ ~(c_i < Len(c_cleaned))
    /\ c_pc' = "done"
    /\ UNCHANGED <<c_text, c_size, c_overlap, c_cleaned, c_i, c_chunks>>
    /\ UNCHANGED <<ingestVars, retrVars, watchVars, otherVars>>

NextChunk == ChunkStart \/ ChunkIter \/ ChunkReturn

SpecChunk == InitChunk /\ [][NextChunk]_vars

\* the loop run step by step returns what the ChunkLoop operator computes
ChunkLoopAgrees ==
    (c_pc = "done" /\ Terminates(c_text, c_size, c_overlap))
        => c_chunks = chunkText(c_text, c_size, c_overlap)

----------------------------------------------------------------------------
(* Claims about chunkText *)

\* C4 (as claimed): chunkText terminates for every non-empty text and every
\* integer size and overlap callers can pass, overlap >= size included: each
\* iteration of the loop moves the window start forward by a positive amount.
C4_Original ==
    [][(c_pc = "loop" /\ c_i < Len(c_cleaned)) => c_i' > c_i]_vars

\* the windows cleaned[i, i+size) for i = 0, step, 2*step, ... < length
Windows(cleaned, size, overlap) ==
    LET step == size - overlap
        n    == (Len(cleaned) + step - 1) \div step
    IN  [k \in 1..n |->
            SubSeq(cleaned, (k - 1) * step + 1,
                   Min((k - 1) * step + size, Len(cleaned)))]

ExpectedChunks(text, size, overlap) ==
    SelectSeq(Windows(StripCR(text), size, overlap), TrimNonEmpty)

ValidArgs == 0 <= c_overlap /\ c_overlap < c_size

IsScenarioA ==
    Len(c_text) = 2500 /\ c_size = 1000 /\ c_overlap = 200

FourChunksLastShort ==
    /\ Len(c_chunks) = 4
    /\ Len(c_chunks[Len(c_chunks)]) < 1000

\* C5 (as claimed): for 0 <= overlap < size chunkText returns exactly the
\* non-blank windows of the CR-stripped text in offset order, and every
\* 2500-character text that is not blank gives 4 chunks at size 1000, overlap
\* 200, the last shorter than 1000.
C5_Original ==
    (c_pc = "done" /\ ValidArgs) =>
        /\ c_chunks = ExpectedChunks(c_text, c_size, c_overlap)
        /\ (IsScenarioA /\ TrimNonEmpty(c_text)) => FourChunksLastShort

\* C5 (amended): for 0 <= overlap < size chunkText returns exactly the
\* non-blank windows of the CR-stripped text in offset order; a 2500-character
\* text without carriage returns whose four windows each hold a non-whitespace
\* character gives 4 chunks at size 1000, overlap 200, the last shorter than
\* 1000.
C5_ChunkerResult ==
    (c_pc = "done" /\ ValidArgs) =>
        /\ c_chunks = ExpectedChunks(c_text, c_size, c_overlap)
        /\ ( /\ IsScenarioA
             /\ \A k \in 1..Len(c_text) : c_text[k] # "\r"
             /\ \A k \in 0..3 :
                    TrimNonEmpty(SubSeq(c_text, 800 * k + 1, Min(800 * k + 1000, 2500))) )
            => FourChunksLastShort

C5_Witness ==
    /\ c_pc = "done"
    /\ IsScenarioA
    /\ FourChunksLastShort
    /\ c_chunks[2] = SubSeq(c_text, 801, 1800)

\* a later chunk without its first overlap characters; nothing is left of
\* a chunk that is not longer than the overlap
WithoutOverlap(chunk, overlap) == SubSeq(chunk, overlap + 1, Len(chunk))

\* the first chunk followed by every later chunk without its overlap
RECURSIVE Rejoin(_, _)
Rejoin(chunks, overlap) ==
    IF Len(chunks) <= 1 THEN (IF chunks = << >> THEN << >> ELSE chunks[1])
    ELSE Rejoin(SubSeq(chunks, 1, Len(chunks) - 1), overlap)
            \o WithoutOverlap(chunks[Len(chunks)], overlap)

\* every window of the cleaned text holds a character that is not whitespace
NoBlankWindow ==
    LET windows == Windows(c_cleaned, c_size, c_overlap)
    IN  \A k \in 1..Len(windows) : TrimNonEmpty(windows[k])

\* C22 (as claimed): for 0 <= overlap < size and every text, the first
\* chunk of chunkText(text, size, overlap) followed by each later chunk
\* without its first overlap characters is the carriage-return-stripped
\* input.
C22_Original ==
    (c_pc = "done" /\ ValidArgs) => Rejoin(c_chunks, c_overlap) = StripCR(c_text)

\* C22 (amended): for 0 <= overlap < size and every text none of whose
\* windows is whitespace-only, the first chunk of chunkText(text, size,
\* overlap) followed by each later chunk without its first overlap
\* characters is the carriage-return-stripped input.
C22_ChunkRoundTrip ==
    (c_pc = "done" /\ ValidArgs /\ NoBlankWindow) =>
        Rejoin(c_chunks, c_overlap) = StripCR(c_text)

\* a text with carriage returns was cut into overlapping chunks, the last
\* shorter than the overlap
C22_Witness ==
    /\ c_pc = "done"
    /\ ValidArgs
    /\ NoBlankWindow
    /\ c_overlap > 0
    /\ Len(c_chunks) >= 3
    /\ Len(c_chunks[Len(c_chunks)]) < c_overlap
    /\ StripCR(c_text) # c_text

----------------------------------------------------------------------------
(* Inputs of processFileForRAG *)

FileIds == {"f1", "f2"}

\* a MIME type is <<type, subtype>>
TabularTypes ==
    { <<"text", "csv">>,
      <<"application", "vnd.ms-excel">>,
      <<"application", "vnd.openxmlformats-officedocument.spreadsheetml.sheet">>,
      <<"application", "vnd.google-apps.spreadsheet">> }

isTabularFile(mimeType) == mimeType \in TabularTypes

\* mimeType.startsWith('image/')
IsImage(mimeType) == mimeType[1] = "image"

\* csv-parse with cast: true turns numeric cells into numbers
Cast(cell) ==
    CASE cell = "1" -> 1
      [] cell = "2" -> 2
      [] OTHER -> cell

\* A file's bytes are an opaque name together with what csv-parse makes of
\* them: whether it parses them (or throws), and the records, each a sequence
\* of <<column, cell>> pairs in header order.
extractSchemaFromCSV(fileContent) ==
    IF ~fileContent.parses THEN << >>
    ELSE IF Len(fileContent.csv) = 0 THEN << >>
    ELSE [k \in 1..Len(fileContent.csv[1]) |-> fileContent.csv[1][k][1]]

extractRowsFromCSV(fileContent) ==
    IF ~fileContent.parses THEN << >>
    ELSE [r \in 1..Len(fileContent.csv) |->
            [k \in 1..Len(fileContent.csv[r]) |->
                <<fileContent.csv[r][k][1], Cast(fileContent.csv[r][k][2])>>]]

\* fileContents.toString('base64')
Base64(fileContent) == <<"base64", fileContent.bytes>>

\* JSON.stringify(schema)
JsonStringify(columns) == <<"json", columns>>

\* the embedding provider's vector for one input text
Embedding(text) == <<"vec", text>>

\* batch sizes of insertDocumentRows and insertDocumentChunks
RowBatchSize == 500
ChunkBatchSize == 100

\* the sixth text is cut into more chunks than one batch holds
Versions ==
    { [fileContent |-> [bytes |-> "pa", parses |-> FALSE, csv |-> << >>],
       text |-> <<"a", "b", "a">>,
       fileTitle |-> "a.txt", mimeType |-> <<"text", "plain">>],
      [fileContent |-> [bytes |-> "pb", parses |-> FALSE, csv |-> << >>],
       text |-> <<"b", " ", "\r", "a">>,
       fileTitle |-> "b.txt", mimeType |-> <<"text", "plain">>],
      [fileContent |-> [bytes |-> "ca", parses |-> TRUE,
                        csv |-> << << <<"name", "x">>, <<"amount", "1">> >>,
                                   << <<"name", "y">>, <<"amount", "2">> >> >>],
       text |-> <<"a", "b">>,
       fileTitle |-> "c.csv", mimeType |-> <<"text", "csv">>],
      [fileContent |-> [bytes |-> "cb", parses |-> TRUE, csv |-> << >>],
       text |-> << >>,
       fileTitle |-> "c.csv", mimeType |-> <<"text", "csv">>],
      [fileContent |-> [bytes |-> "pl", parses |-> FALSE, csv |-> << >>],
       text |-> [k \in 1..(ChunkBatchSize + 1) |-> "a"],
       fileTitle |-> "l.txt", mimeType |-> <<"text", "plain">>],
      [fileContent |-> [bytes |-> "im", parses |-> FALSE, csv |-> << >>],
       text |-> <<"b">>,
       fileTitle |-> "i.png", mimeType |-> <<"image", "png">>] }

\* <<chunkSize, chunkOverlap>>: every version with overlap < size, the first
\* text also with overlap = size
ChunkArgs(v) ==
    IF v.fileContent.bytes = "pa" THEN {<<2, 1>>, <<1, 1>>} ELSE {<<2, 1>>}

OptionsSet ==
    UNION { { [fileContent |-> v.fileContent, text |-> v.text, fileId |-> f,
               fileUrl |-> <<"url", f>>, fileTitle |-> v.fileTitle,
               mimeType |-> v.mimeType, chunkSize |-> a[1], chunkOverlap |-> a[2]] :
              f \in FileIds, a \in ChunkArgs(v) } : v \in Versions }

----------------------------------------------------------------------------
(* The store *)

ChunksOf(fileId) == SelectSeq(documents, LAMBDA d : d.metadata.file_id = fileId)
RowsOf(fileId) == SelectSeq(document_rows, LAMBDA r : r.dataset_id = fileId)
MetadataOf(fileId) == {m \in document_metadata : m.id = fileId}

Store == [documents |-> documents, document_rows |-> document_rows,
          document_metadata |-> document_metadata]

\* one entry of the history of calls: the function, the call it made and
\* whether the call came back without an error
Entry(fn, call, ok) == [fn |-> fn, call |-> call, ok |-> ok]

----------------------------------------------------------------------------
(* Spec: calls of processFileForRAG and deleteDocumentByFileId, one after   *)
(* the other, each store call succeeding or reporting an error.  A call     *)
(* that reports an error leaves its table as it was.                        *)

Init ==
    /\ ChunkIdle
    /\ RetrievalIdle
    /\ WatchIdle
    /\ OtherIdle
    /\ documents = << >>
    /\ document_rows = << >>
    /\ document_metadata = {}
    /\ pc = "idle"
    /\ op = Nil
    /\ options = NoOptions
    /\ p_schema = None
    /\ p_existing = None
    /\ p_rows = << >>
    /\ p_chunks = << >>
    /\ p_embeddings = << >>
    /\ p_i = 0
    /\ ret = Nil
    /\ log = << >>
    /\ pre = EmptyStore
    /\ prev = NoCall
    /\ nops = 0

AllOk(entries) == \A k \in 1..Len(entries) : entries[k].ok

\* what is remembered of the call that has just finished
Summary ==
    IF op = Nil THEN NoCall
    ELSE [op |-> op, options |-> options, ret |-> ret, ok |-> AllOk(log)]

Begin(name, opts) ==
    /\ pc = "idle"
    /\ nops < MaxOps
    /\ op' = name
    /\ options' = opts
    /\ pc' = "del_chunks"
    /\ ret' = Nil
    /\ p_schema' = None
    /\ p_existing' = None
    /\ p_rows' = << >>
    /\ p_chunks' = << >>
    /\ p_embeddings' = << >>
    /\ p_i' = 0
    /\ log' = << >>
    /\ pre' = Store
    /\ prev' = Summary
    /\ nops' = nops + 1
    /\ UNCHANGED <<chunkVars, retrVars, watchVars, otherVars, storeVars>>

\* a caller invokes processFileForRAG(options); its first statement is
\* await deleteDocumentByFileId(fileId)
StartIngest == \E o \in OptionsSet : Begin("processFileForRAG", o)

\* a caller invokes deleteDocumentByFileId(fileId)
StartDelete == \E f \in FileIds : Begin("deleteDocumentByFileId", [fileId |-> f])

\* the call in progress ends with this result
Return(value) ==
    /\ pc' = "idle"
    /\ ret' = value

\* an exception reaches the catch of the function the caller invoked:
\* processFileForRAG returns false, deleteDocumentByFileId rethrows
Throw ==
    IF op = "processFileForRAG" THEN Return("false") ELSE Return("throw")

DeleteChunks_WrongKey ==
    /\ pc = "del_chunks"
    /\ \E ok \in BOOLEAN :
        /\ log' = Append(log, Entry("deleteDocumentByFileId", "documents.delete", ok))
        /\ IF ok
           THEN /\ documents' = SelectSeq(documents,
                                    LAMBDA d : d.metadata.file_title # options.fileId)
                /\ pc' = "del_rows"
                /\ UNCHANGED ret
           ELSE /\ Throw
                /\ UNCHANGED documents
    /\ UNCHANGED <<chunkVars, retrVars, watchVars, otherVars, document_rows, document_metadata, localVars,
                   op, options, pre, prev, nops>>

DeleteChunks_Swallow ==
    /\ pc = "del_chunks"
    /\ \E ok \in BOOLEAN :
        /\ log' = Append(log, Entry("deleteDocumentByFileId", "documents.delete", ok))
        /\ documents' = IF ok THEN SelectSeq(documents,
                                    LAMBDA d : d.metadata.file_id # options.fileId)
                        ELSE documents
        /\ pc' = "del_rows"
        /\ UNCHANGED ret
    /\ UNCHANGED <<chunkVars, retrVars, watchVars, otherVars, document_rows, document_metadata, localVars,
                   op, options, pre, prev, nops>>

\* deleteDocumentByFileId: delete from documents where metadata->>file_id =
\* fileId; if (chunksError) throw
DeleteChunks ==
    /\ pc = "del_chunks"
    /\ \E ok \in BOOLEAN :
        /\ log' = Append(log, Entry("deleteDocumentByFileId", "documents.delete", ok))
        /\ IF ok
           THEN /\ documents' = SelectSeq(documents,
                                    LAMBDA d : d.metadata.file_id # options.fileId)
                /\ pc' = "del_rows"
                /\ UNCHANGED ret
           ELSE /\ Throw
                /\ UNCHANGED documents
    /\ UNCHANGED <<chunkVars, retrVars, watchVars, otherVars, document_rows, document_metadata, localVars,
                   op, options, pre, prev, nops>>

DeleteRows_Fatal ==
    /\ pc = "del_rows"
    /\ \E ok \in BOOLEAN :
        /\ log' = Append(log, Entry("deleteDocumentByFileId", "document_rows.delete", ok))
        /\ IF ok
           THEN /\ document_rows' = SelectSeq(document_rows,
                                    LAMBDA r : r.dataset_id # options.fileId)
                /\ pc' = "del_meta"
                /\ UNCHANGED ret
           ELSE /\ Throw
                /\ UNCHANGED document_rows
    /\ UNCHANGED <<chunkVars, retrVars, watchVars, otherVars, documents, document_metadata, localVars,
                   op, options, pre, prev, nops>>

\* deleteDocumentByFileId: delete from document_rows where dataset_id =
\* fileId; an error is logged as a warning
DeleteRows ==
    /\ pc = "del_rows"
    /\ \E ok \in BOOLEAN :
        /\ log' = Append(log, Entry("deleteDocumentByFileId", "document_rows.delete", ok))
        /\ document_rows' = IF ok THEN SelectSeq(document_rows,
                                    LAMBDA r : r.dataset_id # options.fileId)
                            ELSE document_rows
    /\ pc' = "del_meta"
    /\ UNCHANGED <<chunkVars, retrVars, watchVars, otherVars, documents, document_metadata, localVars,
                   op, options, ret, pre, prev, nops>>

DeleteMetadata_RowsFirst ==
    /\ pc = "del_meta"
    /\ \E ok \in BOOLEAN :
        /\ log' = Append(log, Entry("deleteDocumentByFileId", "document_metadata.delete", ok))
        /\ document_metadata' = IF ok THEN document_metadata \ MetadataOf(options.fileId)
                                ELSE document_metadata
    /\ IF op = "deleteDocumentByFileId"
       THEN /\ Return("void")
            /\ UNCHANGED <<p_schema, p_rows>>
       ELSE /\ p_schema' = IF isTabularFile(options.mimeType)
                           THEN Some(extractSchemaFromCSV(options.fileContent))
                           ELSE None
            /\ p_rows' = IF isTabularFile(options.mimeType)
                         THEN extractRowsFromCSV(options.fileContent)
                         ELSE << >>
            /\ pc' = IF isTabularFile(options.mimeType)
                        /\ Len(extractRowsFromCSV(options.fileContent)) > 0
                     THEN "rows_delete" ELSE "meta_select"
            /\ UNCHANGED ret
    /\ UNCHANGED <<chunkVars, retrVars, watchVars, otherVars, documents, document_rows, p_existing,
                   p_chunks, p_embeddings, p_i, op, options, pre, prev, nops>>

\* deleteDocumentByFileId: delete from document_metadata where id = fileId; an
\* error is logged as a warning; the function returns.  processFileForRAG goes
\* on to isTabularFile / extractSchemaFromCSV and calls
\* insertOrUpdateDocumentMetadata, which selects the existing record.
DeleteMetadata ==
    /\ pc = "del_meta"
    /\ \E ok \in BOOLEAN :
        /\ log' = Append(log, Entry("deleteDocumentByFileId", "document_metadata.delete", ok))
        /\ document_metadata' = IF ok THEN document_metadata \ MetadataOf(options.fileId)
                                ELSE document_metadata
    /\ IF op = "deleteDocumentByFileId"
       THEN /\ Return("void")
            /\ UNCHANGED p_schema
       ELSE /\ pc' = "meta_select"
            /\ p_schema' = IF isTabularFile(options.mimeType)
                           THEN Some(extractSchemaFromCSV(options.fileContent))
                           ELSE None
            /\ UNCHANGED ret
    /\ UNCHANGED <<chunkVars, retrVars, watchVars, otherVars, documents, document_rows, p_existing, p_rows,
                   p_chunks, p_embeddings, p_i, op, options, pre, prev, nops>>

\* insertOrUpdateDocumentMetadata: the record it writes, columns being
\* None or Some(schema); the schema key is there only when a schema was
\* passed (an empty array counts as passed)
MetadataRecord(fileId, fileTitle, fileUrl, columns) ==
    [id |-> fileId, title |-> fileTitle, url |-> fileUrl,
     schema |-> IF columns = None THEN None ELSE JsonStringify(columns[1])]

\* update ... set <the keys of metadata> where id = fileId: a column whose
\* key is missing keeps its value
UpdateMetadata(table, metadata) ==
    { IF m.id = metadata.id
      THEN [metadata EXCEPT !.schema =
                IF metadata.schema = None THEN m.schema ELSE metadata.schema]
      ELSE m : m \in table }

\* processFileForRAG from chunkText on, up to the call of the embedding
\* provider: runs without yielding after the last store call before it
ChunkAndEmbed ==
    IF ~Terminates(options.text, options.chunkSize, options.chunkOverlap)
    THEN /\ pc' = "hung"
         /\ UNCHANGED <<ret, p_chunks>>
    ELSE LET result == chunkText(options.text, options.chunkSize, options.chunkOverlap)
         IN  IF Len(result) = 0
             THEN /\ Return("true")
                  /\ p_chunks' = result
             ELSE /\ pc' = "embed"
                  /\ p_chunks' = result
                  /\ UNCHANGED ret

\* insertOrUpdateDocumentMetadata: select * from document_metadata where id =
\* fileId, single(); the error of the select is not looked at
MetadataSelect ==
    /\ pc = "meta_select"
    /\ \E ok \in BOOLEAN :
        /\ log' = Append(log, Entry("insertOrUpdateDocumentMetadata",
                                    "document_metadata.select", ok))
        /\ p_existing' = IF ok /\ MetadataOf(options.fileId) # {}
                         THEN Some(CHOOSE m \in MetadataOf(options.fileId) : TRUE)
                         ELSE None
    /\ pc' = "meta_write"
    /\ UNCHANGED <<chunkVars, retrVars, watchVars, otherVars, storeVars, p_schema, p_rows, p_chunks,
                   p_embeddings, p_i, op, options, ret, pre, prev, nops>>

\* insertOrUpdateDocumentMetadata: update when a record was found, insert
\* otherwise (id is the primary key: inserting a second record with the id
\* is an error); then processFileForRAG inserts the rows of a tabular file,
\* or goes on to chunk the text
MetadataWrite ==
    /\ pc = "meta_write"
    /\ LET metadata == MetadataRecord(options.fileId, options.fileTitle,
                                      options.fileUrl, p_schema)
           call == IF p_existing # None THEN "document_metadata.update"
                   ELSE "document_metadata.insert"
       IN \E answer \in BOOLEAN :
           LET ok == answer /\ (p_existing = None => MetadataOf(options.fileId) = {})
               tabularRows == IF isTabularFile(options.mimeType)
                              THEN extractRowsFromCSV(options.fileContent)
                              ELSE << >>
           IN /\ log' = Append(log, Entry("insertOrUpdateDocumentMetadata", call, ok))
              /\ IF ~ok
                 THEN /\ Throw
                      /\ UNCHANGED <<document_metadata, p_rows, p_chunks>>
                 ELSE /\ document_metadata' =
                            IF p_existing # None
                            THEN UpdateMetadata(document_metadata, metadata)
                            ELSE document_metadata \cup {metadata}
                      /\ p_rows' = tabularRows
                      /\ IF Len(tabularRows) > 0
                         THEN /\ pc' = "rows_delete"
                              /\ UNCHANGED <<ret, p_chunks>>
                         ELSE ChunkAndEmbed
    /\ UNCHANGED <<chunkVars, retrVars, watchVars, otherVars, documents, document_rows, p_schema, p_existing,
                   p_embeddings, p_i, op, options, pre, prev, nops>>

\* insertDocumentRows: delete from document_rows where dataset_id = fileId;
\* the result of the delete is not looked at
RowsDelete ==
    /\ pc = "rows_delete"
    /\ \E ok \in BOOLEAN :
        /\ log' = Append(log, Entry("insertDocumentRows", "document_rows.delete", ok))
        /\ document_rows' = IF ok THEN SelectSeq(document_rows,
                                    LAMBDA r : r.dataset_id # options.fileId)
                            ELSE document_rows
    /\ pc' = "rows_insert"
    /\ p_i' = 0
    /\ UNCHANGED <<chunkVars, retrVars, watchVars, otherVars, documents, document_metadata, p_schema, p_existing,
                   p_rows, p_chunks, p_embeddings, op, options, ret, pre, prev, nops>>

\* insertDocumentRows: insert rows.slice(i, i + batchSize); if (error) throw;
\* after the last batch processFileForRAG goes on to chunk the text
RowsInsert ==
    /\ pc = "rows_insert"
    /\ p_i < Len(p_rows)
    /\ LET batch == [k \in 1..Len(Slice(p_rows, p_i, p_i + RowBatchSize)) |->
                        [dataset_id |-> options.fileId,
                         row_data |-> Slice(p_rows, p_i, p_i + RowBatchSize)[k]]]
       IN \E ok \in BOOLEAN :
           /\ log' = Append(log, Entry("insertDocumentRows", "document_rows.insert", ok))
           /\ IF ~ok
              THEN /\ Throw
                   /\ UNCHANGED <<document_rows, p_i, p_chunks>>
              ELSE /\ document_rows' = document_rows \o batch
                   /\ p_i' = p_i + RowBatchSize
                   /\ IF p_i + RowBatchSize < Len(p_rows)
                      THEN UNCHANGED <<pc, ret, p_chunks>>
                      ELSE ChunkAndEmbed
    /\ UNCHANGED <<chunkVars, retrVars, watchVars, otherVars, documents, document_metadata, p_schema, p_existing,
                   p_rows, p_embeddings, op, options, pre, prev, nops>>

ChunkData_FirstEmbedding(texts, vectors, fileId, fileUrl, fileTitle, mimeType, fileContents) ==
    [k \in 1..Len(texts) |->
        [content |-> texts[k],
         metadata |-> [file_id |-> fileId,
                       file_url |-> fileUrl,
                       file_title |-> fileTitle,
                       mime_type |-> mimeType,
                       chunk_index |-> k - 1,
                       file_contents |-> IF fileContents = None THEN None
                                         ELSE Base64(fileContents[1])],
         embedding |-> vectors[1]]]

ChunkData_OneBased(texts, vectors, fileId, fileUrl, fileTitle, mimeType, fileContents) ==
    [k \in 1..Len(texts) |->
        [content |-> texts[k],
         metadata |-> [file_id |-> fileId,
                       file_url |-> fileUrl,
                       file_title |-> fileTitle,
                       mime_type |-> mimeType,
                       chunk_index |-> k,
                       file_contents |-> IF fileContents = None THEN None
                                         ELSE Base64(fileContents[1])],
         embedding |-> vectors[k]]]

\* insertDocumentChunks: the records it inserts, in order
ChunkData(texts, vectors, fileId, fileUrl, fileTitle, mimeType, fileContents) ==
    [k \in 1..Len(texts) |->
        [content |-> texts[k],
         metadata |-> [file_id |-> fileId,
                       file_url |-> fileUrl,
                       file_title |-> fileTitle,
                       mime_type |-> mimeType,
                       chunk_index |-> k - 1,
                       file_contents |-> IF fileContents = None THEN None
                                         ELSE Base64(fileContents[1])],
         embedding |-> vectors[k]]]

\* the data of the call in progress
Data ==
    ChunkData(p_chunks, p_embeddings, options.fileId, options.fileUrl,
              options.fileTitle, options.mimeType,
              IF IsImage(options.mimeType) THEN Some(options.fileContent) ELSE None)

\* what the embedding provider answers: an error, one vector per input in
\* input order, or a list that is one vector short
Responses == {"error", "vectors", "short"}

\* createEmbeddings: embeddings.create({input: texts}) and map the response;
\* an error is rethrown.  processFileForRAG then calls insertDocumentChunks,
\* which throws when chunks.length !== embeddings.length and otherwise sends
\* the first batch.
Embed ==
    /\ pc = "embed"
    /\ \E response \in Responses :
        LET vectors == [k \in 1..Len(p_chunks) |-> Embedding(p_chunks[k])]
            mapped == IF response = "short"
                      THEN SubSeq(vectors, 1, Len(vectors) - 1)
                      ELSE vectors
            called == Append(log, Entry("createEmbeddings", "embeddings.create",
                                        response # "error"))
        IN  IF response = "error"
            THEN /\ log' = called
                 /\ Throw
                 /\ UNCHANGED <<p_embeddings, p_i>>
            ELSE /\ p_embeddings' = mapped
                 /\ IF Len(p_chunks) # Len(mapped)
                    THEN /\ log' = Append(called, Entry("insertDocumentChunks",
                                                        "length check", FALSE))
                         /\ Throw
                         /\ UNCHANGED p_i
                    ELSE /\ log' = called
                         /\ pc' = "chunks_insert"
                         /\ p_i' = 0
                         /\ UNCHANGED ret
    /\ UNCHANGED <<chunkVars, retrVars, watchVars, otherVars, storeVars, p_schema, p_existing, p_rows, p_chunks,
                   op, options, pre, prev, nops>>

ChunksInsert_NoThrow ==
    /\ pc = "chunks_insert"
    /\ p_i < Len(Data)
    /\ \E ok \in BOOLEAN :
        /\ log' = Append(log, Entry("insertDocumentChunks", "documents.insert", ok))
        /\ documents' = IF ok THEN documents \o Slice(Data, p_i, p_i + ChunkBatchSize)
                        ELSE documents
        /\ p_i' = p_i + ChunkBatchSize
        /\ IF p_i + ChunkBatchSize < Len(Data)
           THEN UNCHANGED <<pc, ret>>
           ELSE Return("true")
    /\ UNCHANGED <<chunkVars, retrVars, watchVars, otherVars, document_rows, document_metadata, p_schema,
                   p_existing, p_rows, p_chunks, p_embeddings, op, options,
                   pre, prev, nops>>

\* insertDocumentChunks: insert data.slice(i, i + batchSize); if (error) throw;
\* after the last batch processFileForRAG returns true
ChunksInsert ==
    /\ pc = "chunks_insert"
    /\ p_i < Len(Data)
    /\ \E ok \in BOOLEAN :
        /\ log' = Append(log, Entry("insertDocumentChunks", "documents.insert", ok))
        /\ IF ~ok
           THEN /\ Throw
                /\ UNCHANGED <<documents, p_i>>
           ELSE /\ documents' = documents \o Slice(Data, p_i, p_i + ChunkBatchSize)
                /\ p_i' = p_i + ChunkBatchSize
                /\ IF p_i + ChunkBatchSize < Len(Data)
                   THEN UNCHANGED <<pc, ret>>
                   ELSE Return("true")
    /\ UNCHANGED <<chunkVars, retrVars, watchVars, otherVars, document_rows, document_metadata, p_schema,
                   p_existing, p_rows, p_chunks, p_embeddings, op, options,
                   pre, prev, nops>>

Next ==
    \/ StartIngest
    \/ StartDelete
    \/ DeleteChunks
    \/ DeleteRows
    \/ DeleteMetadata
    \/ MetadataSelect
    \/ MetadataWrite
    \/ RowsDelete
    \/ RowsInsert
    \/ Embed
    \/ ChunksInsert

Spec == Init /\ [][Next]_vars

TypeOK ==
    /\ pc \in {"idle", "del_chunks", "del_rows", "del_meta", "meta_select",
               "meta_write", "rows_delete", "rows_insert", "embed",
               "chunks_insert", "hung"}
    /\ ret \in {Nil, "true", "false", "void", "throw"}
    /\ nops \in 0..MaxOps
    /\ \A m \in document_metadata : Cardinality(MetadataOf(m.id)) = 1

----------------------------------------------------------------------------
(* Claims about processFileForRAG and deleteDocumentByFileId *)

\* what a store holds for one source id
Projection(store, fileId) ==
    [documents |-> SelectSeq(store.documents, LAMBDA d : d.metadata.file_id = fileId),
     document_rows |-> SelectSeq(store.document_rows, LAMBDA r : r.dataset_id = fileId),
     document_metadata |-> {m \in store.document_metadata : m.id = fileId}]

Returned(name, value) == pc = "idle" /\ op = name /\ ret = value

\* the call that has just returned and the call before it were both
\* processFileForRAG with the same options, and no call of either reported
\* an error
RanTwice ==
    /\ Returned("processFileForRAG", "true")
    /\ AllOk(log)
    /\ prev.op = "processFileForRAG"
    /\ prev.ret = "true"
    /\ prev.ok
    /\ prev.options = options

\* C1: processFileForRAG run twice in sequence on the same input, every store
\* and embedding call succeeding, leaves the chunks, rows and metadata of the
\* source as the first run left them.
C1_IdempotentReingestion ==
    RanTwice => Projection(Store, options.fileId) = Projection(pre, options.fileId)

C1_Witness ==
    /\ RanTwice
    /\ Len(ChunksOf(options.fileId)) > 0
    /\ Len(RowsOf(options.fileId)) > 0
    /\ MetadataOf(options.fileId) # {}

\* the chunks and rows processFileForRAG(opts) is to leave in the store
ChunksFor(opts) ==
    LET texts == chunkText(opts.text, opts.chunkSize, opts.chunkOverlap)
    IN  ChunkData(texts, [k \in 1..Len(texts) |-> Embedding(texts[k])],
                  opts.fileId, opts.fileUrl, opts.fileTitle, opts.mimeType,
                  IF IsImage(opts.mimeType) THEN Some(opts.fileContent) ELSE None)

RowsFor(opts) ==
    LET records == IF isTabularFile(opts.mimeType)
                   THEN extractRowsFromCSV(opts.fileContent) ELSE << >>
    IN  [k \in 1..Len(records) |-> [dataset_id |-> opts.fileId, row_data |-> records[k]]]

\* processFileForRAG has returned true for a source that the call before it
\* had ingested with other content
Reingested ==
    /\ Returned("processFileForRAG", "true")
    /\ prev.op = "processFileForRAG"
    /\ prev.ret = "true"
    /\ prev.options.fileId = options.fileId
    /\ prev.options.fileContent # options.fileContent

\* C2 (as claimed): after a source is ingested and then successfully
\* re-ingested with different content, the chunks and rows stored for it are
\* exactly those of the new content.
C2_Original ==
    Reingested =>
        /\ ChunksOf(options.fileId) = ChunksFor(options)
        /\ RowsOf(options.fileId) = RowsFor(options)

\* C3 (as claimed): whenever deleteDocumentByFileId(id) returns without
\* throwing, the store holds no chunk, row or metadata record with that id.
C3_Original ==
    Returned("deleteDocumentByFileId", "void") =>
        /\ ChunksOf(options.fileId) = << >>
        /\ RowsOf(options.fileId) = << >>
        /\ MetadataOf(options.fileId) = {}

\* the part of C2 that concerns chunks
ChunksReplaced ==
    Reingested => ChunksOf(options.fileId) = ChunksFor(options)

\* the calls whose error makes the function that issued them throw: the
\* chunk delete, the metadata update or insert, a row batch insert, the
\* embedding request, the length check and a chunk batch insert
StepFailed(e) ==
    /\ ~e.ok
    /\ \/ e.fn = "deleteDocumentByFileId" /\ e.call = "documents.delete"
       \/ e.fn = "insertOrUpdateDocumentMetadata"
            /\ e.call \in {"document_metadata.update", "document_metadata.insert"}
       \/ e.fn = "insertDocumentRows" /\ e.call = "document_rows.insert"
       \/ e.fn = "createEmbeddings"
       \/ e.fn = "insertDocumentChunks"

\* C8: processFileForRAG returns true exactly when none of the steps it
\* attempted (chunk delete, metadata upsert, row insert, embedding, chunk
\* insert) failed; a failed step is the last thing the call does, and the call
\* returns false.
C8_FailurePropagation ==
    op = "processFileForRAG" =>
        /\ ret = "true" => \A k \in 1..Len(log) : ~StepFailed(log[k])
        /\ \A k \in 1..Len(log) :
              StepFailed(log[k]) => k = Len(log) /\ pc = "idle" /\ ret = "false"
        /\ pc = "idle" => ret \in {"true", "false"}
        /\ ret = "false" => StepFailed(log[Len(log)])

\* a later batch of the chunk insert failed after an earlier one was stored
C8_Witness ==
    /\ Returned("processFileForRAG", "false")
    /\ Len(log) >= 2
    /\ log[Len(log)] = Entry("insertDocumentChunks", "documents.insert", FALSE)
    /\ log[Len(log) - 1] = Entry("insertDocumentChunks", "documents.insert", TRUE)

MetadataWritten(e) ==
    /\ e.fn = "insertOrUpdateDocumentMetadata"
    /\ e.call \in {"document_metadata.update", "document_metadata.insert"}
    /\ e.ok

\* C9: within one processFileForRAG, insertDocumentRows and
\* insertDocumentChunks act only after insertOrUpdateDocumentMetadata has
\* written the metadata, and insertDocumentChunks only after the delete of
\* the source's chunks has succeeded (none of its earlier chunks is stored
\* when the first batch goes out).
C9_WriteOrdering ==
    op = "processFileForRAG" =>
        /\ \A k \in 1..Len(log) :
              log[k].fn \in {"insertDocumentRows", "insertDocumentChunks"} =>
                  \E j \in 1..(k - 1) : MetadataWritten(log[j])
        /\ \A k \in 1..Len(log) :
              log[k].fn = "insertDocumentChunks" =>
                  \E j \in 1..(k - 1) :
                      log[j] = Entry("deleteDocumentByFileId", "documents.delete", TRUE)
        /\ (pc = "chunks_insert" /\ p_i = 0) => ChunksOf(options.fileId) = << >>

C9_Witness ==
    /\ Returned("processFileForRAG", "true")
    /\ \E k \in 1..Len(log) : log[k] = Entry("insertDocumentRows", "document_rows.insert", TRUE)
    /\ \E k \in 1..Len(log) : log[k] = Entry("insertDocumentChunks", "documents.insert", TRUE)
    /\ pre.documents # << >>

ChunkDeleteFailed ==
    /\ Len(log) >= 1
    /\ log[1] = Entry("deleteDocumentByFileId", "documents.delete", FALSE)

OnlySecondaryDeleteFailed ==
    /\ Len(log) >= 3
    /\ log[1].ok
    /\ ~log[2].ok \/ ~log[3].ok

\* C10: when the chunk delete fails, deleteDocumentByFileId throws and an
\* enclosing processFileForRAG returns false with the store as it was; when
\* only the row delete or the metadata delete fails, deleteDocumentByFileId
\* returns normally and processFileForRAG goes on to the metadata upsert.
C10_DeleteFailures ==
    /\ ChunkDeleteFailed =>
          /\ Len(log) = 1
          /\ pc = "idle"
          /\ ret = IF op = "processFileForRAG" THEN "false" ELSE "throw"
          /\ Store = pre
    /\ (OnlySecondaryDeleteFailed /\ Len(log) = 3) =>
          IF op = "processFileForRAG"
          THEN pc = "meta_select" /\ ret = Nil
          ELSE pc = "idle" /\ ret = "void"
    /\ (pc = "idle" /\ ret = "throw") => ChunkDeleteFailed

\* an ingestion whose row delete and metadata delete both failed has gone on
\* and returned true
C10_Witness ==
    /\ Returned("processFileForRAG", "true")
    /\ Len(log) >= 3
    /\ log[1].ok /\ ~log[2].ok /\ ~log[3].ok
    /\ pre.document_rows # << >>

\* the chunks of the source begin the chunker's output for opts, in its order
IsPrefix(stored, whole) ==
    /\ Len(stored) <= Len(whole)
    /\ stored = SubSeq(whole, 1, Len(stored))

\* for each input whose chunking ends, the chunks processFileForRAG is to
\* leave (worked out once)
ExpectedFor ==
    [o \in OptionsSet |->
        IF Terminates(o.text, o.chunkSize, o.chunkOverlap) THEN ChunksFor(o)
        ELSE << >>]

\* the call in progress has got past its delete of the source's chunks
ChunksDeleted ==
    /\ op = "processFileForRAG"
    /\ Len(log) >= 1
    /\ log[1].ok

\* C17: in every state reached by ingestions and deletions run one after the
\* other, also those that fail between two batches of chunks, the chunks
\* stored for a source carry the chunk_index values 0..n-1 in storage order,
\* and once the call in progress has deleted the old chunks they are the
\* first n chunks of the chunker's output, in its order.
C17_ChunkIndexContiguity ==
    /\ \A f \in FileIds :
          LET stored == ChunksOf(f)
          IN  \A k \in 1..Len(stored) : stored[k].metadata.chunk_index = k - 1
    /\ (ChunksDeleted /\ Terminates(options.text, options.chunkSize,
                                     options.chunkOverlap)) =>
          IsPrefix(ChunksOf(options.fileId), ExpectedFor[options])

\* an ingestion has failed between two batches: the first batch of the
\* source is stored, the second was refused
C17_Witness ==
    /\ Returned("processFileForRAG", "false")
    /\ ~log[Len(log)].ok
    /\ log[Len(log)].call = "documents.insert"
    /\ Len(ChunksOf(options.fileId)) = ChunkBatchSize
    /\ Len(ExpectedFor[options]) > ChunkBatchSize

\* the call in progress ingests a tabular source with at least one data row
TabularWithRows ==
    /\ op = "processFileForRAG"
    /\ isTabularFile(options.mimeType)
    /\ Len(extractRowsFromCSV(options.fileContent)) > 0

\* the places of the call's history where fn issued a call
CallsOf(fn) == {k \in 1..Len(log) : log[k].fn = fn}

\* every call of the first function precedes every call of the second
Precede(first, second) ==
    \A j \in CallsOf(first), k \in CallsOf(second) : j < k

\* C21 (as claimed): for a tabular source with at least one data row,
\* processFileForRAG issues its store operations in the order delete_source,
\* insert_rows, upsert_source_metadata, insert_chunks: the rows are inserted
\* before the metadata upsert.
C21_Original ==
    TabularWithRows =>
        /\ Precede("deleteDocumentByFileId", "insertDocumentRows")
        /\ Precede("insertDocumentRows", "insertOrUpdateDocumentMetadata")
        /\ Precede("insertOrUpdateDocumentMetadata", "insertDocumentChunks")

\* C21 (amended): for a tabular source with at least one data row,
\* processFileForRAG issues its store operations in the order delete_source,
\* upsert_source_metadata, insert_rows, then (after chunking and embedding)
\* insert_chunks: the metadata upsert comes before the rows; and a call that
\* returns true has done the first three, and the last when the text has
\* chunks.
C21_StepOrder ==
    TabularWithRows =>
        /\ Precede("deleteDocumentByFileId", "insertOrUpdateDocumentMetadata")
        /\ Precede("insertOrUpdateDocumentMetadata", "insertDocumentRows")
        /\ Precede("insertDocumentRows", "createEmbeddings")
        /\ Precede("createEmbeddings", "insertDocumentChunks")
        /\ Returned("processFileForRAG", "true") =>
              /\ CallsOf("deleteDocumentByFileId") # {}
              /\ \E k \in CallsOf("insertOrUpdateDocumentMetadata") :
                    MetadataWritten(log[k])
              /\ \E k \in CallsOf("insertDocumentRows") :
                    log[k] = Entry("insertDocumentRows", "document_rows.insert", TRUE)
              /\ p_chunks # << >> => CallsOf("insertDocumentChunks") # {}

\* a tabular source with rows and a chunk has been ingested: all four
\* operations were issued
C21_Witness ==
    /\ TabularWithRows
    /\ Returned("processFileForRAG", "true")
    /\ CallsOf("insertDocumentRows") # {}
    /\ CallsOf("insertOrUpdateDocumentMetadata") # {}
    /\ CallsOf("insertDocumentChunks") # {}

\* insertDocumentChunks found chunks.length !== embeddings.length
LengthMismatch ==
    \E k \in 1..Len(log) : log[k] = Entry("insertDocumentChunks", "length check", FALSE)

\* C23: after a successful ingestion the chunk stored with chunk_index i
\* has the i-th chunk text as content and the vector at position i of the
\* provider's response as embedding; a response whose length differs from
\* the number of chunks makes the ingestion fail with no chunk inserted.
C23_EmbeddingAlignment ==
    op = "processFileForRAG" =>
        /\ Returned("processFileForRAG", "true") =>
              LET stored == ChunksOf(options.fileId)
              IN  /\ p_chunks = chunkText(options.text, options.chunkSize,
                                          options.chunkOverlap)
                  /\ Len(stored) = Len(p_chunks)
                  /\ p_chunks # << >> => Len(p_embeddings) = Len(p_chunks)
                  /\ \A k \in 1..Len(stored) :
                        /\ stored[k].metadata.chunk_index = k - 1
                        /\ stored[k].content = p_chunks[k]
                        /\ stored[k].embedding = p_embeddings[k]
        /\ (pc # "embed" /\ CallsOf("createEmbeddings") # {}
              /\ log[Len(log)].fn # "createEmbeddings"
              /\ Len(p_embeddings) # Len(p_chunks)) => LengthMismatch
        /\ LengthMismatch =>
              /\ pc = "idle"
              /\ ret = "false"
              /\ \A k \in 1..Len(log) : log[k].call # "documents.insert"
              /\ ChunksOf(options.fileId) = << >>

\* an ingestion has stored three chunks with three different vectors
C23_Witness ==
    /\ Returned("processFileForRAG", "true")
    /\ Len(ChunksOf(options.fileId)) = 3
    /\ \A j, k \in 1..3 : j # k => p_embeddings[j] # p_embeddings[k]

\* the other case: the provider answered with a vector too few
C23_WitnessShort ==
    /\ Returned("processFileForRAG", "false")
    /\ LengthMismatch
    /\ pre.documents # << >>

\* C26 (as claimed): whenever processFileForRAG returns false the store
\* holds no chunk of that source_id, also when a later batch of the chunk
\* insert fails after earlier batches were stored.
C26_Original ==
    Returned("processFileForRAG", "false") => ChunksOf(options.fileId) = << >>

----------------------------------------------------------------------------
(* SpecRetrieval: ragRetrievalTool.  Similarities are in tenths (7 is 0.7). *)

\* defaults of ragRetrievalTool's input
DefaultTopK == 4
DefaultThreshold == 7

Scores == {0, 5, 7, 9}
Thresholds == {7, 9}

\* chunks as insertDocumentChunks stores them; the store numbers them in
\* insertion order
StoredChunks ==
    LET texts == [k \in 1..MaxDocs |-> <<"a", "b", "a">>]
        data == ChunkData(texts, [k \in 1..MaxDocs |-> Embedding(texts[k])],
                          "f1", <<"url", "f1">>, "a.txt", <<"text", "plain">>, None)
    IN  [k \in 1..MaxDocs |-> [id |-> k, content |-> data[k].content,
                               metadata |-> data[k].metadata]]

\* the rpc match_documents(query_embedding, match_count, filter): the
\* match_count most similar chunks, most similar first, equal similarities in
\* insertion order.  docs is the table in insertion order with each chunk's
\* similarity to the query.
match_documents(docs, match_count) ==
    LET rank(k) == Cardinality({j \in 1..Len(docs) :
                        \/ docs[j].similarity > docs[k].similarity
                        \/ docs[j].similarity = docs[k].similarity /\ j < k}) + 1
        sorted == [n \in 1..Len(docs) |-> docs[CHOOSE k \in 1..Len(docs) : rank(k) = n]]
    IN  SubSeq(sorted, 1, Min(match_count, Len(docs)))

SearchFilter_None(data, threshold) == data

\* searchDocuments: data.filter(doc => doc.similarity >= threshold)
SearchFilter(data, threshold) ==
    SelectSeq(data, LAMBDA doc : doc.similarity >= threshold)

\* searchDocuments: the fields kept of each row
SearchMap(filtered) ==
    [k \in 1..Len(filtered) |->
        [id |-> filtered[k].id, content |-> filtered[k].content,
         metadata |-> filtered[k].metadata, similarity |-> filtered[k].similarity]]

\* formatResults: what it returns for no chunk
Sentinel == <<"No relevant documents found in the knowledge base.">>

HasKey(metadata, key) == key \in DOMAIN metadata

\* formatResults: chunk.metadata.filename || chunk.metadata.source || 'Unknown'
Label(metadata) ==
    IF HasKey(metadata, "filename") THEN metadata["filename"]
    ELSE IF HasKey(metadata, "source") THEN metadata["source"]
    ELSE "Unknown"

\* formatResults: the sentinel, or the count followed by one entry per chunk
\* (number, label, relevance in percent, content)
formatResults(found) ==
    IF Len(found) = 0 THEN Sentinel
    ELSE <<"Found", Len(found)>> \o
         [k \in 1..Len(found) |->
            <<"Document", k, Label(found[k].metadata),
              found[k].similarity * 10, found[k].content>>]

Inputs ==
    [query : {"q"}, topK : {None} \cup {Some(n) : n \in 0..MaxDocs},
     threshold : {None} \cup {Some(t) : t \in Thresholds}]

\* const { query, topK = 4, threshold = 0.7 } = input
TopK == IF r_input.topK = None THEN DefaultTopK ELSE r_input.topK[1]
Threshold == IF r_input.threshold = None THEN DefaultThreshold ELSE r_input.threshold[1]

InitRetrieval ==
    /\ ChunkIdle
    /\ IngestIdle
    /\ WatchIdle
    /\ OtherIdle
    /\ r_pc = "idle"
    /\ \E n \in 0..MaxDocs : \E sim \in [1..n -> Scores] :
          r_docs = [k \in 1..n |->
                      [id |-> StoredChunks[k].id, content |-> StoredChunks[k].content,
                       metadata |-> StoredChunks[k].metadata, similarity |-> sim[k]]]
    /\ r_input \in Inputs
    /\ r_embedding = None
    /\ r_results = << >>
    /\ r_failed = "none"
    /\ r_out = None

\* ragRetrievalTool rethrows what it catches
Rethrow(error) ==
    /\ r_pc' = "done"
    /\ r_out' = Some([kind |-> "throw", value |-> <<error>>])

\* ragRetrievalTool is called and calls generateEmbedding(query)
RetrievalStart ==
    /\ r_pc = "idle"
    /\ r_pc' = "embedding"
    /\ UNCHANGED <<r_docs, r_input, r_embedding, r_results, r_failed, r_out>>
    /\ UNCHANGED <<chunkVars, ingestVars, watchVars, otherVars>>

\* generateEmbedding: embeddings.create; an error becomes a
\* ToolExecutionError.  Then searchDocuments calls the rpc.
GenerateEmbedding ==
    /\ r_pc = "embedding"
    /\ \E ok \in BOOLEAN :
        IF ok
        THEN /\ r_embedding' = Some(Embedding(r_input.query))
             /\ r_pc' = "search"
             /\ UNCHANGED <<r_failed, r_out>>
        ELSE /\ r_failed' = "embedding"
             /\ Rethrow("ToolExecutionError")
             /\ UNCHANGED r_embedding
    /\ UNCHANGED <<r_docs, r_input, r_results>>
    /\ UNCHANGED <<chunkVars, ingestVars, watchVars, otherVars>>

\* searchDocuments: an rpc error becomes a DatabaseError, rethrown; otherwise
\* filter (data || []) by the threshold and map; ragRetrievalTool returns
\* formatResults(results)
SearchDocuments ==
    /\ r_pc = "search"
    /\ \E response \in {"error", "rows", "null"} :
        IF response = "error"
        THEN /\ r_failed' = "search"
             /\ Rethrow("DatabaseError")
             /\ UNCHANGED r_results
        ELSE LET data == IF response = "null" THEN << >>
                         ELSE match_documents(r_docs, TopK)
                 found == SearchMap(SearchFilter(data, Threshold))
             IN  /\ r_results' = found
                 /\ r_pc' = "done"
                 /\ r_out' = Some([kind |-> "return", value |-> formatResults(found)])
                 /\ UNCHANGED r_failed
    /\ UNCHANGED <<r_docs, r_input, r_embedding>>
    /\ UNCHANGED <<chunkVars, ingestVars, watchVars, otherVars>>

NextRetrieval == RetrievalStart \/ GenerateEmbedding \/ SearchDocuments

SpecRetrieval == InitRetrieval /\ [][NextRetrieval]_vars

----------------------------------------------------------------------------
(* Claims about retrieval *)

SearchReturned == r_pc = "done" /\ r_failed = "none"

BestSimilarity ==
    IF r_docs = << >> THEN -1
    ELSE CHOOSE b \in {r_docs[k].similarity : k \in 1..Len(r_docs)} :
            \A k \in 1..Len(r_docs) : r_docs[k].similarity <= b

\* C6: every chunk searchDocuments returns has similarity >= threshold, at
\* most top_k chunks are returned, they are in the store's ranking order (by
\* descending similarity, equal ones in insertion order), and when the best
\* match is below the threshold the result is empty and nothing is thrown.
C6_ThresholdContract ==
    SearchReturned =>
        /\ \A k \in 1..Len(r_results) : r_results[k].similarity >= Threshold
        /\ Len(r_results) <= TopK
        /\ \A a, b \in 1..Len(r_results) :
              a < b => \/ r_results[a].similarity > r_results[b].similarity
                       \/ /\ r_results[a].similarity = r_results[b].similarity
                          /\ r_results[a].id < r_results[b].id
        /\ BestSimilarity < Threshold =>
              r_results = << >> /\ r_out = Some([kind |-> "return", value |-> Sentinel])

\* of three stored chunks top_k = 2 cut one off and the threshold another;
\* the one returned is not the first inserted
C6_Witness ==
    /\ SearchReturned
    /\ Len(r_docs) = 3
    /\ TopK = 2
    /\ Len(r_results) = 1
    /\ r_results[1].id # 1

\* C7 (as claimed): when the embedding call or the similarity search fails,
\* ragRetrievalTool returns the "nothing found" sentinel and throws nothing.
C7_Original ==
    (r_pc = "done" /\ r_failed # "none") =>
        r_out = Some([kind |-> "return", value |-> Sentinel])

\* the entries of the formatted result, one per chunk returned
Formatted ==
    IF r_results = << >> THEN << >>
    ELSE SubSeq(r_out[1].value, 3, Len(r_out[1].value))

\* C29 (as claimed): every chunk written by insertDocumentChunks and
\* returned by ragRetrievalTool is labelled in the formatted result with
\* the title of the source it was ingested from, never with 'Unknown'.
C29_Original ==
    SearchReturned =>
        \A k \in 1..Len(r_results) :
            /\ Formatted[k][3] = r_results[k].metadata.file_title
            /\ Formatted[k][3] # "Unknown"

----------------------------------------------------------------------------
(* SpecWatch: the watchers.  GoogleDriveWatcher: start(), stop(), the      *)
(* interval's callback and the scanFolder runs they start, one step per    *)
(* await; the world changes the folder between the steps.                  *)

\* knownFiles: a Map keeps its entries in insertion order, delete empties an
\* entry in place and an iteration in progress goes on behind it
Tombstone == [id |-> NoId, time |-> Absent, live |-> FALSE]

LiveAt(known, id) == {k \in 1..Len(known) : known[k].live /\ known[k].id = id}

MapGet(known, id) ==
    IF LiveAt(known, id) = {} THEN Undefined
    ELSE known[CHOOSE k \in LiveAt(known, id) : TRUE].time

MapSet(known, id, time) ==
    IF LiveAt(known, id) = {}
    THEN Append(known, [id |-> id, time |-> time, live |-> TRUE])
    ELSE [k \in 1..Len(known) |->
            IF k \in LiveAt(known, id) THEN [known[k] EXCEPT !.time = time]
            ELSE known[k]]

MapDelete(known, id) ==
    [k \in 1..Len(known) |-> IF k \in LiveAt(known, id) THEN Tombstone ELSE known[k]]

MapKeys(known) == {known[k].id : k \in {j \in 1..Len(known) : known[j].live}}

\* data.files: the files of the folder with their modifiedTime
ListedIds(listing) == SelectSeq(DriveFiles, LAMBDA f : listing[f] # Absent)

NewOrModified_OnlyNew(knownModified, lastModified) ==
    knownModified = Undefined

\* if (!knownModified || knownModified !== lastModified); a held value is a
\* listed file's modifiedTime, which is never empty
NewOrModified(knownModified, lastModified) ==
    knownModified = Undefined \/ knownModified # lastModified

\* for (const [fileId, _] of this.knownFiles): up to the next entry whose id
\* is not in currentFileIds, where handleFileDeleted is called and awaited
RECURSIVE DeleteLoop(_, _)
DeleteLoop(scan, known) ==
    IF scan.it > Len(known) THEN [scan EXCEPT !.pc = "done", !.cur = NoId]
    ELSE IF known[scan.it].live /\ scan.listing[known[scan.it].id] = Absent
         THEN [scan EXCEPT !.pc = "delete",
                           !.cur = known[scan.it].id,
                           !.deleted = @ \cup {known[scan.it].id}]
         ELSE DeleteLoop([scan EXCEPT !.it = @ + 1], known)

\* for (const file of files): up to the next new or modified file, where
\* processFile is called and awaits the download; after the last file the
\* loop over knownFiles starts
RECURSIVE FileLoop(_, _)
FileLoop(scan, known) ==
    IF scan.todo = << >> THEN DeleteLoop([scan EXCEPT !.it = 1], known)
    ELSE LET file == Head(scan.todo)
             knownModified == MapGet(known, file)
             seen == [scan EXCEPT !.decided =
                         Append(@, [id |-> file, held |-> knownModified])]
         IN  IF NewOrModified(knownModified, scan.listing[file])
             THEN [seen EXCEPT !.pc = "download", !.cur = file,
                               !.processed = @ \cup {file}]
             ELSE FileLoop([seen EXCEPT !.todo = Tail(@)], known)

\* a new scanFolder run: it awaits drive.files.list
NewScan == [NoScan EXCEPT !.pc = "list"]

\* a new process: knownFiles starts empty, whatever an earlier process
\* (ended or crashed) held
InitDrive ==
    /\ ChunkIdle
    /\ IngestIdle
    /\ RetrievalIdle
    /\ sources = [id \in SourceIds |-> Nothing]
    /\ d_folder \in {[f \in DriveIds |-> 1],
                     [f \in DriveIds |-> IF f = DriveFiles[1] THEN 1 ELSE Absent]}
    /\ d_known = << >>
    /\ d_timer = FALSE
    /\ d_start = "new"
    /\ d_stopped = FALSE
    /\ d_scans = [i \in 1..MaxScans |-> NoScan]
    /\ d_nscan = 0
    /\ d_events = 0
    /\ LocalOff
    /\ CliOff
    /\ OtherIdle

\* start(): await this.scanFolder()
DriveStart ==
    /\ d_start = "new"
    /\ d_start' = "scanning"
    /\ d_nscan' = 1
    /\ d_scans' = [d_scans EXCEPT ![1] = NewScan]
    /\ UNCHANGED <<chunkVars, ingestVars, retrVars, otherVars, localWatchVars, cliVars, sources, d_folder, d_known,
                   d_timer, d_stopped, d_events>>

\* scanFolder run i goes on as scan; when the run that start() awaits ends,
\* start() goes on: this.checkInterval = setInterval(...)
Proceed(i, scan) ==
    /\ d_scans' = [d_scans EXCEPT ![i] = scan]
    /\ IF scan.pc = "done" /\ i = 1 /\ d_start = "scanning"
       THEN d_start' = "started" /\ d_timer' = TRUE
       ELSE UNCHANGED <<d_start, d_timer>>

\* the interval fires: its callback calls scanFolder, whatever the runs
\* before it are doing
DriveTick ==
    /\ d_timer
    /\ d_events < MaxEvents
    /\ d_events' = d_events + 1
    /\ d_nscan' = d_nscan + 1
    /\ d_scans' = [d_scans EXCEPT ![d_nscan + 1] = NewScan]
    /\ UNCHANGED <<chunkVars, ingestVars, retrVars, otherVars, localWatchVars, cliVars, sources, d_folder, d_known,
                   d_timer, d_start, d_stopped>>

\* stop(): if (this.checkInterval) { clearInterval(...); ... = null }
DriveStop ==
    /\ d_start \in {"scanning", "started"}
    /\ ~d_stopped
    /\ d_stopped' = TRUE
    /\ d_timer' = FALSE
    /\ UNCHANGED <<chunkVars, ingestVars, retrVars, otherVars, localWatchVars, cliVars, sources, d_folder, d_known,
                   d_start, d_scans, d_nscan, d_events>>

\* the world adds, modifies or removes a file of the folder; the change
\* shows when a run next reads the folder: at a listing or a download
DriveEdit ==
    /\ \E i \in 1..MaxScans : d_scans[i].pc \in {"list", "download"}
    /\ d_events < MaxEvents
    /\ \E f \in DriveIds, t \in {Absent} \cup Times :
        /\ t # d_folder[f]
        /\ d_folder' = [d_folder EXCEPT ![f] = t]
    /\ d_events' = d_events + 1
    /\ UNCHANGED <<chunkVars, ingestVars, retrVars, otherVars, localWatchVars, cliVars, sources, d_known, d_timer,
                   d_start, d_stopped, d_scans, d_nscan>>

ListReturn_EmptyOnError ==
    \E i \in 1..MaxScans :
        /\ d_scans[i].pc = "list"
        /\ \E ok \in BOOLEAN :
            Proceed(i, FileLoop([d_scans[i] EXCEPT
                                    !.failed = ~ok,
                                    !.listing = IF ok THEN d_folder
                                                ELSE [f \in DriveIds |-> Absent],
                                    !.held = MapKeys(d_known),
                                    !.todo = IF ok THEN ListedIds(d_folder)
                                             ELSE << >>],
                                d_known))
        /\ UNCHANGED <<chunkVars, ingestVars, retrVars, otherVars, localWatchVars, cliVars, sources, d_folder,
                       d_known, d_stopped, d_nscan, d_events>>

\* drive.files.list answers: an error ends the run in scanFolder's catch;
\* a listing starts the loop over its files
ListReturn ==
    \E i \in 1..MaxScans :
        /\ d_scans[i].pc = "list"
        /\ \E ok \in BOOLEAN :
            IF ok
            THEN Proceed(i, FileLoop([d_scans[i] EXCEPT
                                         !.listing = d_folder,
                                         !.held = MapKeys(d_known),
                                         !.todo = ListedIds(d_folder)],
                                     d_known))
            ELSE Proceed(i, [d_scans[i] EXCEPT !.pc = "done", !.failed = TRUE])
        /\ UNCHANGED <<chunkVars, ingestVars, retrVars, otherVars, localWatchVars, cliVars, sources, d_folder,
                       d_known, d_stopped, d_nscan, d_events>>

\* processFile returns to scanFolder, which does
\* this.knownFiles.set(file.id, lastModified) and goes on with the loop
AfterProcessFile(i) ==
    LET scan == d_scans[i]
        known == MapSet(d_known, scan.cur, scan.listing[scan.cur])
    IN  /\ d_known' = known
        /\ Proceed(i, FileLoop([scan EXCEPT !.todo = Tail(@), !.cur = NoId,
                                            !.content = Absent], known))

\* drive.files.get and extractTextFromFile answer: the bytes and the text of
\* the file as it is now, after which processFileForRAG is called; or an
\* error (always when the file is gone), which processFile catches
DownloadReturn ==
    \E i \in 1..MaxScans :
        /\ d_scans[i].pc = "download"
        /\ \E ok \in BOOLEAN :
            IF ok /\ d_folder[d_scans[i].cur] # Absent
            THEN /\ d_scans' = [d_scans EXCEPT
                                   ![i].pc = "ingest",
                                   ![i].content = d_folder[d_scans[i].cur]]
                 /\ UNCHANGED <<d_known, d_start, d_timer>>
            ELSE AfterProcessFile(i)
        /\ UNCHANGED <<chunkVars, ingestVars, retrVars, otherVars, localWatchVars, cliVars, sources, d_folder,
                       d_stopped, d_nscan, d_events>>

\* processFileForRAG answers true, the source now holding the content, or
\* false, the source as it was or as the failed steps left it
IngestReturn ==
    \E i \in 1..MaxScans :
        /\ d_scans[i].pc = "ingest"
        /\ \E stored \in {d_scans[i].content, Partial, sources[d_scans[i].cur]} :
            sources' = [sources EXCEPT ![d_scans[i].cur] = stored]
        /\ AfterProcessFile(i)
        /\ UNCHANGED <<chunkVars, ingestVars, retrVars, otherVars, localWatchVars, cliVars, d_folder, d_stopped,
                       d_nscan, d_events>>

\* deleteDocumentByFileId answers (handleFileDeleted catches what it throws),
\* scanFolder does this.knownFiles.delete(fileId) and goes on with the loop
DeleteReturn ==
    \E i \in 1..MaxScans :
        /\ d_scans[i].pc = "delete"
        /\ \E ok \in BOOLEAN :
            sources' = IF ok THEN [sources EXCEPT ![d_scans[i].cur] = Nothing]
                       ELSE sources
        /\ LET known == MapDelete(d_known, d_scans[i].cur)
           IN  /\ d_known' = known
               /\ Proceed(i, DeleteLoop([d_scans[i] EXCEPT !.it = @ + 1], known))
        /\ UNCHANGED <<chunkVars, ingestVars, retrVars, otherVars, localWatchVars, cliVars, d_folder, d_stopped,
                       d_nscan, d_events>>

----------------------------------------------------------------------------
(* LocalFileWatcher: start(), stop(), the startup scan and the handlers of *)
(* chokidar's add, change and unlink events, one step per await; the world *)
(* writes and removes files of the watch directory between the steps.      *)

\* a processFile or handleFileDeleted call under way: the file, the await
\* it is at, the content it read, and whether the startup scan or an event
\* handler made it
Call(path, at, content, by) ==
    [path |-> path, pc |-> at, content |-> content, by |-> by]

\* one entry of what has happened to a file so far
Logged(ev, path, content, by) ==
    [ev |-> ev, path |-> path, content |-> content, by |-> by]

\* the history with one more entry for the entry's file
Note(history, entry) == [history EXCEPT ![entry.path] = Append(@, entry)]

Remove(seq, k) == SubSeq(seq, 1, k - 1) \o SubSeq(seq, k + 1, Len(seq))

\* the world holds both supported files or none of them, besides a file
\* with an extension that is not supported
InitLocal ==
    /\ ChunkIdle
    /\ IngestIdle
    /\ RetrievalIdle
    /\ OtherIdle
    /\ DriveOff
    /\ CliOff
    /\ sources = [id \in SourceIds |-> Nothing]
    /\ l_files \in {[path \in LocalPaths |-> 1],
                    [path \in LocalPaths |->
                        IF isSupported(path) THEN Absent ELSE 1]}
    /\ l_pending = [path \in LocalPaths |-> "none"]
    /\ l_processed = {}
    /\ l_watcher = FALSE
    /\ l_start = "new"
    /\ l_stopped = FALSE
    /\ l_todo = << >>
    /\ l_calls = << >>
    /\ l_log = NoLog
    /\ l_edits = 0

\* scanExistingFiles goes on with the files left: await processFile of the
\* next one; after the last, start() goes on:
\* this.watcher = chokidar.watch(...).on('add', ...)...
ScanFrom(files, calls) ==
    /\ l_todo' = files
    /\ IF files = << >>
       THEN /\ l_start' = "started"
            /\ l_watcher' = TRUE
            /\ l_calls' = calls
       ELSE /\ l_start' = "scanning"
            /\ l_calls' = Append(calls, Call(Head(files), "read", Absent, "scan"))
            /\ UNCHANGED l_watcher

\* start(): mkdir, then scanExistingFiles: getFilesRecursively answers with
\* the files of the directory, or throws into scanExistingFiles' catch
LocalStart ==
    /\ l_start = "new"
    /\ \E ok \in BOOLEAN :
        LET files == IF ok
                     THEN SelectSeq(WatchedFiles,
                                    LAMBDA f : l_files[f] # Absent /\ isSupported(f))
                     ELSE << >>
        IN  /\ ScanFrom(files, l_calls)
            /\ l_log' = [path \in LocalPaths |->
                            IF \E k \in 1..Len(files) : files[k] = path
                            THEN Append(l_log[path],
                                        Logged("found", path, Absent, "scan"))
                            ELSE l_log[path]]
    /\ UNCHANGED <<chunkVars, ingestVars, retrVars, otherVars, driveVars, cliVars, sources,
                   l_files, l_pending, l_processed, l_stopped, l_edits>>

\* call k is over; the startup scan goes on when it was the scan's
EndCall(k) ==
    IF l_calls[k].by = "scan"
    THEN ScanFrom(Tail(l_todo), Remove(l_calls, k))
    ELSE /\ l_calls' = Remove(l_calls, k)
         /\ UNCHANGED <<l_todo, l_start, l_watcher>>

\* processFile: readFile, stat and extractTextFromFile answer: the file as
\* it is now, after which processFileForRAG is called; or an error (always
\* when the file is gone), which processFile catches
LocalReadReturn ==
    \E k \in 1..Len(l_calls) :
        /\ l_calls[k].pc = "read"
        /\ \E ok \in BOOLEAN :
            LET path == l_calls[k].path
            IN  IF ok /\ l_files[path] # Absent
                THEN /\ l_calls' = [l_calls EXCEPT ![k].pc = "ingest",
                                                   ![k].content = l_files[path]]
                     /\ l_log' = Note(l_log, Logged("ingest", path, l_files[path],
                                                      l_calls[k].by))
                     /\ UNCHANGED <<l_todo, l_start, l_watcher>>
                ELSE /\ EndCall(k)
                     /\ l_log' = Note(l_log, Logged("failed", path, Absent,
                                                      l_calls[k].by))
        /\ UNCHANGED <<chunkVars, ingestVars, retrVars, otherVars, driveVars, cliVars, sources,
                       l_files, l_pending, l_processed, l_stopped, l_edits>>

\* processFile: processFileForRAG answers; if (success)
\* this.processedFiles.set(filepath, stats.mtimeMs)
LocalIngestReturn ==
    \E k \in 1..Len(l_calls) :
        /\ l_calls[k].pc = "ingest"
        /\ LET path == l_calls[k].path
               fileId == FileId(path)
           IN  \E success \in BOOLEAN :
                 IF success
                 THEN /\ sources' = [sources EXCEPT ![fileId] = l_calls[k].content]
                      /\ l_processed' = l_processed \cup {path}
                 ELSE /\ \E stored \in {Partial, sources[fileId]} :
                            sources' = [sources EXCEPT ![fileId] = stored]
                      /\ UNCHANGED l_processed
        /\ EndCall(k)
        /\ UNCHANGED <<chunkVars, ingestVars, retrVars, otherVars, driveVars, cliVars,
                       l_files, l_pending, l_stopped, l_log, l_edits>>

\* handleFileDeleted: deleteDocumentByFileId answers; then
\* this.processedFiles.delete(filepath), unless it threw
LocalDeleteReturn ==
    \E k \in 1..Len(l_calls) :
        /\ l_calls[k].pc = "delete"
        /\ \E ok \in BOOLEAN :
            IF ok
            THEN /\ sources' = [sources EXCEPT ![FileId(l_calls[k].path)] = Nothing]
                 /\ l_processed' = l_processed \ {l_calls[k].path}
            ELSE UNCHANGED <<sources, l_processed>>
        /\ l_calls' = Remove(l_calls, k)
        /\ UNCHANGED <<chunkVars, ingestVars, retrVars, otherVars, driveVars, cliVars,
                       l_files, l_pending, l_watcher, l_start, l_stopped, l_todo,
                       l_log, l_edits>>

LocalWrite_NoWait ==
    /\ l_start \in {"scanning", "started"}
    /\ l_edits < MaxEdits
    /\ \E path \in SupportedPaths, t \in Times :
        /\ t # l_files[path]
        /\ l_files' = [l_files EXCEPT ![path] = t]
        /\ IF l_watcher /\ l_pending[path] = "add"
           THEN /\ l_pending' = [l_pending EXCEPT ![path] = "change"]
                /\ l_calls' = Append(l_calls, Call(path, "read", Absent, "event"))
                /\ l_log' = Note(Note(l_log, Logged("write", path, t, "world")),
                                  Logged("add", path, Absent, "event"))
           ELSE /\ l_pending' =
                      IF l_watcher /\ l_pending[path] = "none"
                      THEN [l_pending EXCEPT ![path] =
                               IF l_files[path] = Absent THEN "add" ELSE "change"]
                      ELSE l_pending
                /\ l_log' = Note(l_log, Logged("write", path, t, "world"))
                /\ UNCHANGED l_calls
    /\ l_edits' = l_edits + 1
    /\ UNCHANGED <<chunkVars, ingestVars, retrVars, otherVars, driveVars, cliVars, sources,
                   l_processed, l_watcher, l_start, l_stopped, l_todo>>

\* the world writes a supported file (the handlers return at once for the
\* others).  With awaitWriteFinish chokidar holds the add or change event
\* back until the file has been stable for stabilityThreshold ms; a write
\* in that time only restarts the wait.
LocalWrite ==
    /\ l_start \in {"scanning", "started"}
    /\ l_edits < MaxEdits
    /\ \E path \in SupportedPaths, t \in Times :
        /\ t # l_files[path]
        /\ l_files' = [l_files EXCEPT ![path] = t]
        /\ l_pending' =
              IF l_watcher /\ l_pending[path] = "none"
              THEN [l_pending EXCEPT ![path] =
                       IF l_files[path] = Absent THEN "add" ELSE "change"]
              ELSE l_pending
        /\ l_log' = Note(l_log, Logged("write", path, t, "world"))
    /\ l_edits' = l_edits + 1
    /\ UNCHANGED <<chunkVars, ingestVars, retrVars, otherVars, driveVars, cliVars, sources,
                   l_processed, l_watcher, l_start, l_stopped, l_todo, l_calls>>

\* the file has been stable for stabilityThreshold ms: chokidar emits the
\* event it held back, and handleFileAdded or handleFileChanged calls
\* processFile, which awaits readFile
LocalStable ==
    /\ l_watcher
    /\ \E path \in SupportedPaths :
        /\ l_pending[path] # "none"
        /\ l_pending' = [l_pending EXCEPT ![path] = "none"]
        /\ l_calls' = Append(l_calls, Call(path, "read", Absent, "event"))
        /\ l_log' = Note(l_log, Logged(l_pending[path], path, Absent, "event"))
    /\ UNCHANGED <<chunkVars, ingestVars, retrVars, otherVars, driveVars, cliVars, sources,
                   l_files, l_processed, l_watcher, l_start, l_stopped, l_todo,
                   l_edits>>

\* the world removes a supported file.  chokidar drops an add it was holding
\* back and emits nothing; otherwise it emits unlink, and handleFileDeleted
\* calls deleteDocumentByFileId if (this.processedFiles.has(filepath)).  The
\* history notes when a processFile call for the file is under way.
LocalUnlink ==
    /\ l_start \in {"scanning", "started"}
    /\ l_edits < MaxEdits
    /\ \E path \in SupportedPaths :
        /\ l_files[path] # Absent
        /\ l_files' = [l_files EXCEPT ![path] = Absent]
        /\ l_pending' = [l_pending EXCEPT ![path] = "none"]
        /\ LET removed == Note(l_log, Logged("remove", path, Absent, "world"))
               inflight == \E k \in 1..Len(l_calls) :
                              /\ l_calls[k].path = path
                              /\ l_calls[k].pc \in {"read", "ingest"}
               unlink == Note(IF inflight
                              THEN Note(removed, Logged("inflight", path, Absent,
                                                        "event"))
                              ELSE removed,
                              Logged("unlink", path, Absent, "event"))
           IN  IF ~l_watcher \/ l_pending[path] = "add"
               THEN /\ l_log' = removed
                    /\ UNCHANGED l_calls
               ELSE IF path \in l_processed
                    THEN /\ l_log' = Note(unlink, Logged("delete", path, Absent,
                                                           "event"))
                         /\ l_calls' = Append(l_calls,
                                              Call(path, "delete", Absent, "event"))
                    ELSE /\ l_log' = unlink
                         /\ UNCHANGED l_calls
    /\ l_edits' = l_edits + 1
    /\ UNCHANGED <<chunkVars, ingestVars, retrVars, otherVars, driveVars, cliVars, sources,
                   l_processed, l_watcher, l_start, l_stopped, l_todo>>

\* stop(): if (this.watcher) { await this.watcher.close(); this.watcher = null }
LocalStop ==
    /\ l_start \in {"scanning", "started"}
    /\ ~l_stopped
    /\ l_stopped' = TRUE
    /\ l_watcher' = FALSE
    /\ l_pending' = [path \in LocalPaths |-> "none"]
    /\ UNCHANGED <<chunkVars, ingestVars, retrVars, otherVars, driveVars, cliVars, sources,
                   l_files, l_processed, l_start, l_todo, l_calls, l_log, l_edits>>

----------------------------------------------------------------------------
(* The CLI's process-directory command: one step per await *)

\* the directory holds the three files, or all but the first
InitCli ==
    /\ ChunkIdle
    /\ IngestIdle
    /\ RetrievalIdle
    /\ OtherIdle
    /\ DriveOff
    /\ sources = [id \in SourceIds |-> Nothing]
    /\ l_files \in {[path \in LocalPaths |-> 1],
                    [path \in LocalPaths |->
                        IF path = WatchedFiles[1] THEN Absent ELSE 1]}
    /\ l_pending = [path \in LocalPaths |-> "none"]
    /\ l_processed = {}
    /\ l_watcher = FALSE
    /\ l_start = "off"
    /\ l_stopped = FALSE
    /\ l_todo = << >>
    /\ l_calls = << >>
    /\ l_log = NoLog
    /\ l_edits = 0
    /\ k_pc = "new"
    /\ k_todo = << >>
    /\ k_done = << >>
    /\ k_counts = [success |-> 0, fail |-> 0]

\* the loop goes on with the files left: await fs.readFile of the next one
CliFrom(files) ==
    /\ k_todo' = files
    /\ k_pc' = IF files = << >> THEN "done" ELSE "read"

\* getFilesRecursively answers with the files of the directory, or throws
\* into the action's outer catch: process.exit(1)
CliStart ==
    /\ k_pc = "new"
    /\ \E ok \in BOOLEAN :
        IF ok
        THEN CliFrom(SelectSeq(WatchedFiles, LAMBDA f : l_files[f] # Absent))
        ELSE k_pc' = "exit" /\ UNCHANGED k_todo
    /\ UNCHANGED <<chunkVars, ingestVars, retrVars, otherVars, driveVars, localWatchVars,
                   sources, k_done, k_counts>>

CliRead_Abort ==
    /\ k_pc = "read"
    /\ \E ok \in BOOLEAN :
        LET filepath == Head(k_todo)
        IN  IF ~ok
            THEN /\ k_done' = Append(k_done, [path |-> filepath, outcome |-> "error"])
                 /\ k_counts' = [k_counts EXCEPT !.fail = @ + 1]
                 /\ k_pc' = "exit"
                 /\ UNCHANGED k_todo
            ELSE IF ~isSupported(filepath)
                 THEN /\ k_done' = Append(k_done,
                                          [path |-> filepath, outcome |-> "skipped"])
                      /\ CliFrom(Tail(k_todo))
                      /\ UNCHANGED k_counts
                 ELSE /\ k_pc' = "ingest"
                      /\ UNCHANGED <<k_todo, k_done, k_counts>>
    /\ UNCHANGED <<chunkVars, ingestVars, retrVars, otherVars, driveVars, localWatchVars,
                   sources>>

\* fs.readFile and, for a supported file, extractTextFromFile answer: an
\* error goes to the loop's catch (failCount++), an unsupported file is
\* skipped (continue), else processFileForRAG is called
CliRead ==
    /\ k_pc = "read"
    /\ \E ok \in BOOLEAN :
        LET filepath == Head(k_todo)
        IN  IF ~ok
            THEN /\ k_done' = Append(k_done, [path |-> filepath, outcome |-> "error"])
                 /\ k_counts' = [k_counts EXCEPT !.fail = @ + 1]
                 /\ CliFrom(Tail(k_todo))
            ELSE IF ~isSupported(filepath)
                 THEN /\ k_done' = Append(k_done,
                                          [path |-> filepath, outcome |-> "skipped"])
                      /\ CliFrom(Tail(k_todo))
                      /\ UNCHANGED k_counts
                 ELSE /\ k_pc' = "ingest"
                      /\ UNCHANGED <<k_todo, k_done, k_counts>>
    /\ UNCHANGED <<chunkVars, ingestVars, retrVars, otherVars, driveVars, localWatchVars,
                   sources>>

\* processFileForRAG answers: successCount++ or failCount++
CliIngestReturn ==
    /\ k_pc = "ingest"
    /\ LET filepath == Head(k_todo)
           fileId == FileId(filepath)
       IN  \E success \in BOOLEAN :
             /\ IF success
                THEN sources' = [sources EXCEPT ![fileId] = l_files[filepath]]
                ELSE \E stored \in {Partial, sources[fileId]} :
                        sources' = [sources EXCEPT ![fileId] = stored]
             /\ k_done' = Append(k_done,
                                 [path |-> filepath,
                                  outcome |-> IF success THEN "true" ELSE "false"])
             /\ k_counts' = IF success THEN [k_counts EXCEPT !.success = @ + 1]
                            ELSE [k_counts EXCEPT !.fail = @ + 1]
    /\ CliFrom(Tail(k_todo))
    /\ UNCHANGED <<chunkVars, ingestVars, retrVars, otherVars, driveVars, localWatchVars>>

InitWatch == InitDrive \/ InitLocal \/ InitCli

NextWatch ==
    \/ DriveStart
    \/ DriveTick
    \/ DriveStop
    \/ DriveEdit
    \/ ListReturn
    \/ DownloadReturn
    \/ IngestReturn
    \/ DeleteReturn
    \/ LocalStart
    \/ LocalStop
    \/ LocalWrite
    \/ LocalStable
    \/ LocalUnlink
    \/ LocalReadReturn
    \/ LocalIngestReturn
    \/ LocalDeleteReturn
    \/ CliStart
    \/ CliRead
    \/ CliIngestReturn

SpecWatch == InitWatch /\ [][NextWatch]_vars

----------------------------------------------------------------------------
(* Claims about GoogleDriveWatcher *)

Scans == 1..MaxScans

\* the ids of a listing
Listed(scan) == {f \in DriveIds : scan.listing[f] # Absent}

\* run i of scanFolder ends in this step, having got its listing
Completes(i) ==
    /\ d_scans[i].pc \notin {"off", "done"}
    /\ d_scans'[i].pc = "done"
    /\ ~d_scans'[i].failed

\* of the files a run has visited, processFile was called for exactly those
\* not held or held with another modifiedTime than the listing's
DiffRight(scan) ==
    \A k \in 1..Len(scan.decided) :
        LET file == scan.decided[k].id
            held == scan.decided[k].held
        IN  file \in scan.processed <=>
                (held = Undefined \/ held # scan.listing[file])

\* a run that ends has visited every listed file once, every id that was
\* held when the listing came and is absent from it has had
\* handleFileDeleted called for it, and no id absent from the listing is held
DeletionsRight(scan) ==
    /\ Len(scan.decided) = Cardinality(Listed(scan))
    /\ {scan.decided[k].id : k \in 1..Len(scan.decided)} = Listed(scan)
    /\ scan.processed \subseteq Listed(scan)
    /\ \A f \in scan.held \ Listed(scan) :
          \E j \in Scans : f \in d_scans[j].deleted
    /\ MapKeys(d_known) \subseteq Listed(scan)

\* C11: in each completed scan a listed file is downloaded and ingested
\* exactly if its id is not held or its modifiedTime differs from the held
\* value, and every held id absent from the listing has
\* deleteDocumentByFileId called for it and is removed from knownFiles.
C11_DriveScanDiff ==
    [][\A i \in Scans :
          /\ DiffRight(d_scans[i])'
          /\ Completes(i) => DeletionsRight(d_scans[i])']_vars

\* a scan has ended that skipped an unchanged file, processed a modified one
\* and deleted a held one that had left the folder
C11_Witness ==
    \E i \in Scans :
        /\ d_scans[i].pc = "done"
        /\ ~d_scans[i].failed
        /\ d_scans[i].deleted # {}
        /\ \E k \in 1..Len(d_scans[i].decided) :
              /\ d_scans[i].decided[k].held \in Times
              /\ d_scans[i].decided[k].id \in d_scans[i].processed

\* C12: deleteDocumentByFileId is called by a scan only for an id that
\* knownFiles holds and that is absent from the listing this scan obtained;
\* a scan whose listing failed, or one of whose files failed, deletes no
\* source whose file was in the folder when it was listed.
C12_NoOverDeletion ==
    [][\A i \in Scans :
          /\ \A f \in d_scans'[i].deleted \ d_scans[i].deleted :
                /\ f \in MapKeys(d_known')
                /\ f \notin Listed(d_scans'[i])
                /\ d_scans'[i].pc = "delete"
          /\ d_scans'[i].failed => d_scans'[i].deleted = {}]_vars

\* a scan one of whose files failed has gone on to delete the source of a
\* file that had left the folder
C12_Witness ==
    \E i \in Scans :
        /\ d_scans[i].pc = "delete"
        /\ \E f \in d_scans[i].processed : sources[f] = Partial
        /\ d_scans[i].cur \in d_scans[i].held

\* C14 (as claimed): of one watcher's scanFolder runs at most one is under
\* way at any time.
C14_Original ==
    Cardinality({i \in Scans : d_scans[i].pc \notin {"off", "done"}}) <= 1

\* in this step run i's processFile ends with a failure: the download or
\* the extraction failed, or processFileForRAG did not store the content
ProcessFileFails(i) ==
    /\ d_scans'[i] # d_scans[i]
    /\ \/ /\ d_scans[i].pc = "download"
          /\ ~(d_scans'[i].pc = "ingest" /\ d_scans'[i].cur = d_scans[i].cur)
       \/ /\ d_scans[i].pc = "ingest"
          /\ sources'[d_scans[i].cur] # d_scans[i].content

\* C25 (as claimed): when the download, extraction or ingestion of a new or
\* modified Drive file fails during a scan, the watcher does not record the
\* file's modifiedTime as held, so that the next scan attempts the file
\* again.
C25_Original ==
    [][\A i \in Scans :
          ProcessFileFails(i) =>
              MapGet(d_known', d_scans[i].cur) # d_scans[i].listing[d_scans[i].cur]]_vars

----------------------------------------------------------------------------
(* Claims about the loops over files *)

\* the places of path's history where ev happened
Places(ev, path) ==
    {k \in 1..Len(l_log[path]) : l_log[path][k].ev = ev}

\* the startup scan called processFile for path: the file was read and
\* processFileForRAG called, or the read failed
ScanAttempted(path) ==
    \E k \in 1..Len(l_log[path]) :
        /\ l_log[path][k].by = "scan"
        /\ l_log[path][k].ev \in {"ingest", "failed"}

\* C13: a failure while reading, extracting or ingesting one file does not
\* stop the loop: once the local watcher's startup scan, a scanFolder run
\* that got its listing, or the CLI's process-directory loop is over, every
\* file of its enumeration has been attempted.
C13_PerFileIsolation ==
    /\ l_start = "started" =>
          \A path \in LocalPaths : Places("found", path) # {} => ScanAttempted(path)
    /\ \A i \in Scans :
          (d_scans[i].pc = "done" /\ ~d_scans[i].failed) =>
              {d_scans[i].decided[k].id : k \in 1..Len(d_scans[i].decided)}
                  = Listed(d_scans[i])
    /\ k_pc \in {"done", "exit"} =>
          /\ k_todo = << >>
          /\ k_pc = "done" =>
                [k \in 1..Len(k_done) |-> k_done[k].path]
                    = SelectSeq(WatchedFiles, LAMBDA f : l_files[f] # Absent)

\* the startup scan is over: the first file's read failed, and the second
\* file, which the scan visits after it, was ingested
C13_Witness ==
    /\ l_start = "started"
    /\ \E j \in Places("failed", WatchedFiles[1]) :
          l_log[WatchedFiles[1]][j].by = "scan"
    /\ \E k \in Places("ingest", WatchedFiles[2]) :
          l_log[WatchedFiles[2]][k].by = "scan"

----------------------------------------------------------------------------
(* Claims about the watchers' calls *)

\* C15 (as claimed): a watcher never has two processFileForRAG calls for
\* the same source_id under way at once.
C15_Original ==
    /\ \A i, j \in Scans :
          (/\ i # j
           /\ d_scans[i].pc = "ingest"
           /\ d_scans[j].pc = "ingest") => d_scans[i].cur # d_scans[j].cur
    /\ \A j, k \in 1..Len(l_calls) :
          (/\ j # k
           /\ l_calls[j].pc = "ingest"
           /\ l_calls[k].pc = "ingest")
              => FileId(l_calls[j].path) # FileId(l_calls[k].path)

\* C16 (as claimed): the local watcher gives a file the same source_id on
\* every scan, and two distinct files under the watch directory never get
\* the same source_id: no two ingestions of distinct files address one id.
C16_Original ==
    \A p, q \in LocalPaths :
        (/\ Places("ingest", p) # {}
         /\ Places("ingest", q) # {}
         /\ FileId(p) = FileId(q)) => p = q

\* the places of path's history where chokidar emitted add or change
Events(path) == Places("add", path) \cup Places("change", path)

\* path was added and modified once more before chokidar emitted anything
\* for it, nothing else was done to it, and its handlers have read the file
AddedThenModified(path) ==
    /\ Cardinality(Places("write", path)) = 2
    /\ Places("remove", path) = {}
    /\ Places("found", path) = {}
    /\ Events(path) # {}
    /\ \A w \in Places("write", path), e \in Events(path) : w < e
    /\ l_pending[path] = "none"
    /\ \A k \in 1..Len(l_calls) : l_calls[k].path = path => l_calls[k].pc # "read"

\* C18: if the local watcher sees a file added and then modified before the
\* write-stability window elapses, processFile is called once for it and,
\* unless reading the file fails, processFileForRAG is called exactly once,
\* with the final content of the file.
C18_Debounce ==
    \A path \in SupportedPaths :
        AddedThenModified(path) =>
            /\ Cardinality(Events(path)) = 1
            /\ Cardinality(Places("ingest", path) \cup Places("failed", path)) = 1
            /\ \A k \in Places("ingest", path) :
                  /\ l_log[path][k].content = l_files[path]
                  /\ \A w \in Places("write", path) : w < k

\* a file was written twice, then its add event came and its one ingestion,
\* with the content of the second write, has been started
C18_Witness ==
    \E path \in SupportedPaths :
        /\ AddedThenModified(path)
        /\ Places("ingest", path) # {}
        /\ \E w \in Places("write", path) : l_log[path][w].content # l_files[path]

\* the unlink event of path came while a processFile call for it was under
\* way, the file has not been written since, every handler call for it has
\* returned, and no other file shares its source_id
DeletedInFlight(path) ==
    /\ \E k \in Places("inflight", path) : \A w \in Places("write", path) : w < k
    /\ \A k \in 1..Len(l_calls) : l_calls[k].path # path
    /\ \A other \in LocalPaths \ {path} :
          FileId(other) = FileId(path) => Places("ingest", other) = {}

\* C27 (as claimed): if the local watcher handles the delete event of a file
\* while an ingestion of the file is in flight, its first included, then
\* once both handlers have finished the store holds nothing for the file's
\* source_id.
C27_Original ==
    \A path \in SupportedPaths :
        DeletedInFlight(path) => sources[FileId(path)] = Nothing

\* C19 (as claimed): whenever the local watcher receives the unlink event
\* of a supported file for which an ingestion was attempted before,
\* successful or not, it calls deleteDocumentByFileId with the file's id.
C19_Original ==
    \A path \in LocalPaths :
        \A k \in Places("unlink", path) :
            (\E j \in Places("ingest", path) : j < k)
                => /\ k < Len(l_log[path])
                   /\ l_log[path][k + 1].ev = "delete"

\* C20 (as claimed): once stop() has been called no scan starts and
\* processFile is called for no further file, by either watcher, also when
\* stop() came during start()'s initial scan; and stop() leaves the calls
\* under way as they are.
C20_Original ==
    [][/\ d_stopped =>
            /\ d_nscan' = d_nscan
            /\ \A i \in Scans : d_scans'[i].processed \subseteq d_scans[i].processed
       /\ l_stopped =>
            /\ ~(l_todo' # l_todo /\ l_todo' # << >>)
            /\ \A path \in LocalPaths : Events(path)' \subseteq Events(path)
       /\ (d_stopped' /\ ~d_stopped) => d_scans' = d_scans
       /\ (l_stopped' /\ ~l_stopped) => l_calls' = l_calls]_vars

----------------------------------------------------------------------------
(* SpecMemory: addMemory, one step per await.  An importance is in tenths   *)
(* (5 is 0.5).                                                              *)

\* calls of addMemory in one behaviour
MaxMemories == 2

\* const { ..., importance = 0.5 } = input
DefaultImportance == 5

\* numbers a caller may pass as importance; the type is number
Importances == {-2, 0, 5, 10, 15}

AddMemoryInputs ==
    [userId : {"u1"}, conversationId : {None, Some("c1")},
     content : {<<"likes tea">>, <<"lives in Oslo">>},
     importance : {None} \cup {Some(n) : n \in Importances}]

InitMemory ==
    /\ ChunkIdle
    /\ IngestIdle
    /\ RetrievalIdle
    /\ WatchIdle
    /\ ConfigIdle
    /\ SuperIdle
    /\ m_pc = "idle"
    /\ m_env \in [MEMORY_RETENTION_DAYS : {0, 90}]
    /\ m_input = [userId |-> Nil]
    /\ m_embedding = None
    /\ m_memories = << >>
    /\ m_out = None
    /\ m_calls = 0

\* addMemory(input) is called and awaits generateEmbedding(content)
AddMemoryStart ==
    /\ m_pc = "idle"
    /\ m_calls < MaxMemories
    /\ m_input' \in AddMemoryInputs
    /\ m_pc' = "embedding"
    /\ m_embedding' = None
    /\ m_out' = None
    /\ m_calls' = m_calls + 1
    /\ UNCHANGED <<m_env, m_memories>>
    /\ UNCHANGED <<chunkVars, ingestVars, retrVars, watchVars, cfgVars, superVars>>

\* generateEmbedding answers or throws; addMemory's catch rethrows
MemoryEmbeddingReturn ==
    /\ m_pc = "embedding"
    /\ \E ok \in BOOLEAN :
        IF ok
        THEN /\ m_embedding' = Some(Embedding(m_input.content))
             /\ m_pc' = "insert"
             /\ UNCHANGED m_out
        ELSE /\ m_pc' = "idle"
             /\ m_out' = Some([kind |-> "throw", value |-> "Error"])
             /\ UNCHANGED m_embedding
    /\ UNCHANGED <<m_env, m_input, m_memories, m_calls>>
    /\ UNCHANGED <<chunkVars, ingestVars, retrVars, watchVars, cfgVars, superVars>>

\* the record addMemory inserts: importance is the input's, or the default
\* when the input has none; expires_at is set when retentionDays > 0
MemoryRecord(input, embedding, retentionDays) ==
    [user_id |-> input.userId,
     conversation_id |-> input.conversationId,
     content |-> input.content,
     importance |-> IF input.importance = None THEN DefaultImportance
                    ELSE input.importance[1],
     embedding |-> embedding,
     expires_at |-> IF retentionDays > 0 THEN Some(<<"now", retentionDays>>)
                    ELSE None]

\* from('memories').insert(...).select().single() answers: the stored row,
\* whose id addMemory returns, or an error, thrown as a DatabaseError
MemoryInsertReturn ==
    /\ m_pc = "insert"
    /\ \E ok \in BOOLEAN :
        IF ok
        THEN LET row == [id |-> Len(m_memories) + 1] @@
                        MemoryRecord(m_input, m_embedding[1],
                                     m_env.MEMORY_RETENTION_DAYS)
             IN  /\ m_memories' = Append(m_memories, row)
                 /\ m_out' = Some([kind |-> "return", value |-> row.id])
        ELSE /\ m_out' = Some([kind |-> "throw", value |-> "DatabaseError"])
             /\ UNCHANGED m_memories
    /\ m_pc' = "idle"
    /\ UNCHANGED <<m_env, m_input, m_embedding, m_calls>>
    /\ UNCHANGED <<chunkVars, ingestVars, retrVars, watchVars, cfgVars, superVars>>

NextMemory == AddMemoryStart \/ MemoryEmbeddingReturn \/ MemoryInsertReturn

SpecMemory == InitMemory /\ [][NextMemory]_vars

----------------------------------------------------------------------------
(* Claims about the memory system *)

\* C24 (as claimed): every record addMemory writes to the store, for any
\* input it accepts, has an importance within [0, 1].
C24_Original ==
    \A k \in 1..Len(m_memories) :
        0 <= m_memories[k].importance /\ m_memories[k].importance <= 10

----------------------------------------------------------------------------
(* SpecConfig: the configuration of a LocalFileWatcher, from its           *)
(* constructor to the processFileForRAG calls of processFile                *)

\* processFile calls in one behaviour
MaxIssued == 2

\* the environment: CHUNK_SIZE is a positive integer, CHUNK_OVERLAP a
\* non-negative one
Environments == [CHUNK_SIZE : {1000, 3}, CHUNK_OVERLAP : {200, 0}]

\* what a caller passes to the constructor: nothing, or a config whose
\* chunkSize and chunkOverlap are each left out or a number (the watch-local
\* command passes parseInt of its options)
GivenConfigs ==
    {None} \cup
    {Some(c) : c \in [chunkSize : {None, Some(2), Some(500)},
                      chunkOverlap : {None, Some(0), Some(1), Some(100)}]}

InitConfig ==
    /\ ChunkIdle
    /\ IngestIdle
    /\ RetrievalIdle
    /\ WatchIdle
    /\ MemoryIdle
    /\ SuperIdle
    /\ w_pc = "new"
    /\ w_env \in Environments
    /\ w_given \in GivenConfigs
    /\ w_config = None
    /\ w_issued = << >>

\* config?.key: undefined when no config was passed or the key is left out
Optional(given, key) == IF given = None THEN None ELSE given[1][key]

\* value || default: the default replaces undefined and also 0
OrElse(value, default) ==
    IF value = None \/ value[1] = 0 THEN default ELSE value[1]

\* the constructor: this.config = { chunkSize: config?.chunkSize ||
\* env.CHUNK_SIZE, chunkOverlap: config?.chunkOverlap || env.CHUNK_OVERLAP }
WatcherConstruct ==
    /\ w_pc = "new"
    /\ w_pc' = "ready"
    /\ w_config' = Some([chunkSize |-> OrElse(Optional(w_given, "chunkSize"),
                                              w_env.CHUNK_SIZE),
                         chunkOverlap |-> OrElse(Optional(w_given, "chunkOverlap"),
                                                 w_env.CHUNK_OVERLAP)])
    /\ UNCHANGED <<w_env, w_given, w_issued>>
    /\ UNCHANGED <<chunkVars, ingestVars, retrVars, watchVars, memVars, superVars>>

\* processFile: processFileForRAG({..., chunkSize: this.config.chunkSize,
\* chunkOverlap: this.config.chunkOverlap})
WatcherProcessFile ==
    /\ w_pc = "ready"
    /\ Len(w_issued) < MaxIssued
    /\ w_issued' = Append(w_issued, [chunkSize |-> w_config[1].chunkSize,
                                     chunkOverlap |-> w_config[1].chunkOverlap])
    /\ UNCHANGED <<w_pc, w_env, w_given, w_config>>
    /\ UNCHANGED <<chunkVars, ingestVars, retrVars, watchVars, memVars, superVars>>

NextConfig == WatcherConstruct \/ WatcherProcessFile

SpecConfig == InitConfig /\ [][NextConfig]_vars

----------------------------------------------------------------------------
(* Claims about the watcher's configuration *)

\* the value supplied for key, if one was
Supplied(key) == Optional(w_given, key)

\* C28 (as claimed): every ingestion a LocalFileWatcher issues uses exactly
\* the chunkSize and chunkOverlap passed in its config whenever they are
\* supplied, chunkOverlap = 0 included.
C28_Original ==
    \A k \in 1..Len(w_issued) :
        /\ Supplied("chunkSize") # None =>
              w_issued[k].chunkSize = Supplied("chunkSize")[1]
        /\ Supplied("chunkOverlap") # None =>
              w_issued[k].chunkOverlap = Supplied("chunkOverlap")[1]

----------------------------------------------------------------------------
(* SpecSupervisor: the supervisor workflow run by runSupervisorWorkflow,    *)
(* one step per node function, LLM call and routing decision.  The graph    *)
(* runs a node whenever one is due and every LLM call answers or throws.    *)
(* The messages take no part in the routing and are left out.               *)

\* if (state.iterations >= 10)
MaxIterations == 10

Workers == {"researcher", "coder", "writer"}

\* what the LLM answers the supervisor with: a decision naming a worker or
\* finish, a decision naming no member of the enum, text without a JSON
\* object, a JSON object that does not parse; or the call throws
Decisions == Workers \cup {"finish", "tester", "nojson", "badjson"}

\* let next = 'finish'; a match that parses and passes the schema sets next,
\* anything else leaves it (the catch only logs)
ParseDecision(response) ==
    IF response \in Workers \cup {"finish"} THEN response ELSE "finish"

\* a channel's reducer: (x, y) => y ?? x
Update(old, new) == IF new = None THEN old ELSE new[1]

\* the state after a node returned its partial state
Merge(state, partial) ==
    [nextAgent |-> IF partial.nextAgent = None THEN state.nextAgent
                   ELSE partial.nextAgent,
     taskComplete |-> Update(state.taskComplete, partial.taskComplete),
     iterations |-> Update(state.iterations, partial.iterations)]

\* workflow.invoke({messages, taskComplete: false, iterations: 0}); the
\* edge from START leads to supervisor
InitSupervisor ==
    /\ ChunkIdle
    /\ IngestIdle
    /\ RetrievalIdle
    /\ WatchIdle
    /\ MemoryIdle
    /\ ConfigIdle
    /\ s_node = "supervisor"
    /\ s_pc = "enter"
    /\ s_state = [nextAgent |-> None, taskComplete |-> FALSE, iterations |-> 0]
    /\ s_response = None
    /\ s_delegations = 0
    /\ s_steps = 0

SupervisorEnter_OffByOne ==
    /\ s_node = "supervisor"
    /\ s_pc = "enter"
    /\ IF s_state.iterations > MaxIterations
       THEN /\ s_state' = Merge(s_state, [nextAgent |-> Some("finish"),
                                          taskComplete |-> Some(TRUE),
                                          iterations |-> None])
            /\ s_pc' = "route"
            /\ s_steps' = s_steps + 1
       ELSE /\ s_pc' = "llm"
            /\ UNCHANGED <<s_state, s_steps>>
    /\ UNCHANGED <<s_node, s_response, s_delegations>>
    /\ UNCHANGED <<chunkVars, ingestVars, retrVars, watchVars, memVars, cfgVars>>

\* supervisorAgent: if (state.iterations >= 10) return {nextAgent: 'finish',
\* taskComplete: true}; otherwise it awaits chain.invoke
SupervisorEnter ==
    /\ s_node = "supervisor"
    /\ s_pc = "enter"
    /\ IF s_state.iterations >= MaxIterations
       THEN /\ s_state' = Merge(s_state, [nextAgent |-> Some("finish"),
                                          taskComplete |-> Some(TRUE),
                                          iterations |-> None])
            /\ s_pc' = "route"
            /\ s_steps' = s_steps + 1
       ELSE /\ s_pc' = "llm"
            /\ UNCHANGED <<s_state, s_steps>>
    /\ UNCHANGED <<s_node, s_response, s_delegations>>
    /\ UNCHANGED <<chunkVars, ingestVars, retrVars, watchVars, memVars, cfgVars>>

\* supervisorAgent: the LLM answers and the decision is parsed: return
\* {nextAgent: next, taskComplete: next === 'finish', iterations:
\* state.iterations + 1}; or chain.invoke throws and the run is rejected
SupervisorDecide ==
    /\ s_node = "supervisor"
    /\ s_pc = "llm"
    /\ \E response \in Decisions \cup {"throw"} :
        /\ s_response' = Some(response)
        /\ IF response = "throw"
           THEN /\ s_node' = "rejected"
                /\ s_pc' = "over"
                /\ UNCHANGED <<s_state, s_steps>>
           ELSE LET next == ParseDecision(response)
                IN  /\ s_state' = Merge(s_state,
                                        [nextAgent |-> Some(next),
                                         taskComplete |-> Some(next = "finish"),
                                         iterations |-> Some(s_state.iterations + 1)])
                    /\ s_pc' = "route"
                    /\ s_steps' = s_steps + 1
                    /\ UNCHANGED s_node
    /\ UNCHANGED s_delegations
    /\ UNCHANGED <<chunkVars, ingestVars, retrVars, watchVars, memVars, cfgVars>>

\* researcherAgent, coderAgent, writerAgent: the LLM answers: return
\* {messages, nextAgent: 'supervisor'}; or chain.invoke throws
WorkerReturn ==
    /\ s_node \in Workers
    /\ s_pc = "llm"
    /\ \E response \in {"text", "throw"} :
        /\ s_response' = Some(response)
        /\ IF response = "throw"
           THEN /\ s_node' = "rejected"
                /\ s_pc' = "over"
                /\ UNCHANGED <<s_state, s_steps>>
           ELSE /\ s_state' = Merge(s_state, [nextAgent |-> Some("supervisor"),
                                              taskComplete |-> None,
                                              iterations |-> None])
                /\ s_pc' = "route"
                /\ s_steps' = s_steps + 1
                /\ UNCHANGED s_node
    /\ UNCHANGED s_delegations
    /\ UNCHANGED <<chunkVars, ingestVars, retrVars, watchVars, memVars, cfgVars>>

\* router: END if (state.taskComplete || !state.nextAgent), else nextAgent
router(state) ==
    IF state.taskComplete \/ state.nextAgent = None THEN "END"
    ELSE state.nextAgent[1]

\* addConditionalEdges: the node a router result leads to from a node; a
\* result that is neither END nor a key of the node's map is an error
EdgeFrom(node, result) ==
    IF result = "END" THEN "END"
    ELSE IF node = "supervisor"
         THEN (IF result \in Workers THEN result
               ELSE IF result = "finish" THEN "END" ELSE "rejected")
         ELSE (IF result = "supervisor" THEN "supervisor" ELSE "rejected")

\* the conditional edge after a node: the graph goes to the node the router
\* names; a worker starts with its LLM call
Route ==
    /\ s_pc = "route"
    /\ LET target == EdgeFrom(s_node, router(s_state))
       IN  /\ s_node' = target
           /\ s_pc' = IF target \in Workers THEN "llm"
                      ELSE IF target = "supervisor" THEN "enter" ELSE "over"
           /\ s_delegations' = IF target \in Workers THEN s_delegations + 1
                               ELSE s_delegations
    /\ UNCHANGED <<s_state, s_response, s_steps>>
    /\ UNCHANGED <<chunkVars, ingestVars, retrVars, watchVars, memVars, cfgVars>>

NextSupervisor == SupervisorEnter \/ SupervisorDecide \/ WorkerReturn \/ Route

SpecSupervisor ==
    InitSupervisor /\ [][NextSupervisor]_vars /\ WF_vars(NextSupervisor)

----------------------------------------------------------------------------
(* Claims about the supervisor workflow *)

Unparseable == Decisions \ (Workers \cup {"finish"})

\* what holds at every point of a run
SupervisorSafe ==
    /\ s_delegations <= MaxIterations
    /\ s_steps <= 2 * MaxIterations + 1
    /\ (s_node \in Workers /\ s_pc = "route") =>
          EdgeFrom(s_node, router(s_state)) = "supervisor"
    /\ (s_node = "supervisor" /\ s_pc = "route" /\ s_response # None
          /\ s_response[1] \in Unparseable) =>
          EdgeFrom(s_node, router(s_state)) = "END"
    /\ s_node = "rejected" => s_response = Some("throw")

C30_WitnessInvalid ==
    /\ s_node = "END"
    /\ s_response = Some("tester")
    /\ s_delegations > 0

====
